---- MODULE Spec2Model ----
(***************************************************************************)
(* Model of the image text-overlay services of this repository:            *)
(*   src/server.js          the plain text overlay        (variant server) *)
(*   src/unnamed/part_002   the background/filter/border overlay (part002) *)
(*   src/unnamed/part_001   lines 445-949, the legacy overlay     (legacy) *)
(* Strings are sequences of one-character strings, so that split, join,    *)
(* prefix tests and concatenation are computed as the code computes them.  *)
(***************************************************************************)
EXTENDS Integers, Sequences, FiniteSets, TLC

VARIABLES
  arg,              \* input of the pure function under check
  result,           \* its result, NotYet before it is applied
  variant,          \* which overlay program the process runs
  rq,               \* the request being handled by app.get('/*')
  canvas,           \* the drawing operations done on the output surface, in order
  resp,             \* the HTTP response of the request
  rounds,           \* number of requests begun so far
  registeredFonts,  \* const registeredFonts = new Set()
  cacheFiles,       \* files of FONT_CACHE_DIR: cache file -> content
  backendFonts,     \* GlobalFonts: successful registerFromPath calls, in order
  fcall,            \* the running calls of registerFontFromUrl
  fstat,            \* what the calls of registerFontFromUrl have done so far
  calls             \* number of direct calls of registerFontFromUrl begun so far

vars == <<arg, result, variant, rq, canvas, resp, rounds,
          registeredFonts, cacheFiles, backendFonts, fcall, fstat, calls>>

(***************************************************************************)
(* Bounds                                                                  *)
(***************************************************************************)
MaxPathLen == 7      \* longest generated pathname, in characters
MaxRounds == 2       \* requests handled one after the other
MaxCallers == 2      \* overlapping callers of registerFontFromUrl
MaxCalls == 3        \* calls of registerFontFromUrl begun in one run
MaxWrapLen == 5      \* longest text handed to the word wrap, in characters
MaxDecodeLen == 5    \* longest raw query text handed to decodeText, in characters
MaxTokens == 4       \* most space-separated tokens of a padding string
MaxValue == 12       \* largest affection value
MaxValueLen == 3     \* longest text of the Value parameter
MaxHeight == 40      \* largest content height, in pixels, either sign

NotYet == [notYet |-> TRUE]

(***************************************************************************)
(* String helpers (JavaScript String methods)                              *)
(***************************************************************************)
Str_json == <<".", "j", "s", "o", "n">>
Slash == <<"/">>

\* String.prototype.startsWith
StartsWith(s, p) == Len(s) >= Len(p) /\ SubSeq(s, 1, Len(p)) = p

RECURSIVE SplitAcc(_, _, _, _)
SplitAcc(s, sep, cur, acc) ==
  IF s = <<>> THEN Append(acc, cur)
  ELSE IF Head(s) = sep THEN SplitAcc(Tail(s), sep, <<>>, Append(acc, cur))
  ELSE SplitAcc(Tail(s), sep, Append(cur, Head(s)), acc)

\* String.prototype.split(sep) for a one-character separator
Split(s, sep) == SplitAcc(s, sep, <<>>, <<>>)

\* Array.prototype.filter(Boolean) on an array of strings: drops the empty ones
FilterBoolean(parts) == SelectSeq(parts, LAMBDA p : p # <<>>)

RECURSIVE Join(_, _)
\* Array.prototype.join(sep)
Join(parts, sep) ==
  IF parts = <<>> THEN <<>>
  ELSE IF Len(parts) = 1 THEN parts[1]
  ELSE parts[1] \o sep \o Join(Tail(parts), sep)

\* Array.prototype.slice(0, -2)
SliceDropLast2(parts) == SubSeq(parts, 1, Len(parts) - 2)

(***************************************************************************)
(* extractPathInfo                                                         *)
(***************************************************************************)
Thrown(msg) == [threw |-> msg]
IsThrown(r) == DOMAIN r = {"threw"}

\* mutant: the empty segments are kept (no filter(Boolean))
extractPathInfo_keepEmpty(urlPathname) ==
  LET path == IF StartsWith(urlPathname, Slash) THEN Tail(urlPathname) ELSE urlPathname
      pathParts == Split(path, "/")
  IN IF Len(pathParts) < 3 THEN Thrown("path")
     ELSE LET imagePath == Join(Tail(pathParts), Slash)
              imagePathParts == Split(imagePath, "/")
          IN [bucketName |-> pathParts[1], imagePath |-> imagePath,
              configDir |-> Join(SliceDropLast2(imagePathParts), Slash),
              folderName |-> imagePathParts[Len(imagePathParts) - 1],
              configKey |-> Join(SliceDropLast2(imagePathParts), Slash) \o Slash
                            \o imagePathParts[Len(imagePathParts) - 1] \o Str_json]

\* mutant: two path elements are accepted
extractPathInfo_min2(urlPathname) ==
  LET path == IF StartsWith(urlPathname, Slash) THEN Tail(urlPathname) ELSE urlPathname
      pathParts == FilterBoolean(Split(path, "/"))
  IN IF Len(pathParts) < 2 THEN Thrown("path")
     ELSE LET imagePath == Join(Tail(pathParts), Slash)
              imagePathParts == Split(imagePath, "/")
          IN [bucketName |-> pathParts[1], imagePath |-> imagePath,
              configDir |-> Join(SliceDropLast2(imagePathParts), Slash),
              folderName |-> IF Len(imagePathParts) >= 2
                             THEN imagePathParts[Len(imagePathParts) - 1] ELSE <<>>,
              configKey |-> Join(SliceDropLast2(imagePathParts), Slash) \o Slash
                            \o (IF Len(imagePathParts) >= 2
                                THEN imagePathParts[Len(imagePathParts) - 1] ELSE <<>>)
                            \o Str_json]

extractPathInfo(urlPathname) ==
  LET path == IF StartsWith(urlPathname, Slash) THEN Tail(urlPathname) ELSE urlPathname
      pathParts == FilterBoolean(Split(path, "/"))
  IN IF Len(pathParts) < 3 THEN Thrown("path")
     ELSE LET bucketName == pathParts[1]
              imagePath == Join(Tail(pathParts), Slash)
              imagePathParts == Split(imagePath, "/")
          IN IF Len(imagePathParts) < 2 THEN Thrown("imagePath")
             ELSE LET configDir == Join(SliceDropLast2(imagePathParts), Slash)
                      folderName == imagePathParts[Len(imagePathParts) - 1]
                      configKey == configDir \o Slash \o folderName \o Str_json
                  IN [bucketName |-> bucketName, imagePath |-> imagePath,
                      configDir |-> configDir, folderName |-> folderName,
                      configKey |-> configKey]

(***************************************************************************)
(* buildResourceUrl and URL parsing                                        *)
(***************************************************************************)
Str_http == <<"h", "t", "t", "p", ":", "/", "/">>
Str_https == <<"h", "t", "t", "p", "s", ":", "/", "/">>
Str_fonts == <<"/", "f", "o", "n", "t", "s", "/">>

buildResourceUrl(baseUrl, bucketName, resourcePath) ==
  IF StartsWith(baseUrl, Str_http) \/ StartsWith(baseUrl, Str_https)
  THEN baseUrl \o Slash \o bucketName \o Slash \o resourcePath
  ELSE Str_https \o baseUrl \o Slash \o bucketName \o Slash \o resourcePath

\* The host of an absolute URL: the text between "://" and the next "/".
UrlHost(url) ==
  LET rest == IF StartsWith(url, Str_https) THEN SubSeq(url, Len(Str_https) + 1, Len(url))
              ELSE SubSeq(url, Len(Str_http) + 1, Len(url))
  IN Split(rest, "/")[1]

\* new URL(fontUrl) throws on a host that is empty or holds a space
UrlParses(url) ==
  LET host == UrlHost(url)
  IN host # <<>> /\ \A i \in 1..Len(host) : host[i] # " "

\* the cache file of a font URL: FONT_CACHE_DIR/md5(fontUrl) + ext, one file per URL
cacheFileOf(fontUrl) == fontUrl

(***************************************************************************)
(* decodeText                                                              *)
(***************************************************************************)
HexDigits == {"0", "1", "2", "3", "4", "5", "6", "7", "8", "9",
              "A", "B", "C", "D", "E", "F", "a", "b", "c", "d", "e", "f"}

\* The escapes of the modelled inputs: %20 %0A %0a %25 %5F %5f %41
PctChar(h1, h2) ==
  CASE h1 = "2" /\ h2 = "0" -> " "
    [] h1 = "0" /\ h2 \in {"A", "a"} -> "\n"
    [] h1 = "2" /\ h2 = "5" -> "%"
    [] h1 = "5" /\ h2 \in {"F", "f"} -> "_"
    [] h1 = "4" /\ h2 = "1" -> "A"
    [] OTHER -> "?"

\* first hex digit of a byte 0x80..0xBF, which starts no UTF-8 sequence
ContinuationByteDigits == {"8", "9", "A", "B", "a", "b"}

RECURSIVE decodeURIComponent(_)
\* <<ok, text>>: ok is FALSE when a "%" is not followed by two hex digits, or when the
\* escaped byte can start no UTF-8 sequence (URIError)
decodeURIComponent(s) ==
  IF s = <<>> THEN <<TRUE, <<>>>>
  ELSE IF Head(s) # "%"
       THEN LET r == decodeURIComponent(Tail(s))
            IN <<r[1], <<Head(s)>> \o r[2]>>
  ELSE IF Len(s) >= 3 /\ s[2] \in HexDigits /\ s[3] \in HexDigits
          /\ s[2] \notin ContinuationByteDigits
       THEN LET r == decodeURIComponent(SubSeq(s, 4, Len(s)))
            IN <<r[1], <<PctChar(s[2], s[3])>> \o r[2]>>
  ELSE <<FALSE, <<>>>>

RECURSIVE ReplaceUnderscore(_)
\* .replace(/_/g, ' ')
ReplaceUnderscore(s) ==
  IF s = <<>> THEN <<>>
  ELSE <<IF Head(s) = "_" THEN " " ELSE Head(s)>> \o ReplaceUnderscore(Tail(s))

RECURSIVE ReplacePct0A(_)
\* .replace(/%0A/gi, '\n')
ReplacePct0A(s) ==
  IF s = <<>> THEN <<>>
  ELSE IF Len(s) >= 3 /\ s[1] = "%" /\ s[2] = "0" /\ s[3] \in {"A", "a"}
       THEN <<"\n">> \o ReplacePct0A(SubSeq(s, 4, Len(s)))
  ELSE <<Head(s)>> \o ReplacePct0A(Tail(s))

\* [threw, text]; the text is '' for an empty input
decodeText(text) ==
  IF text = <<>> THEN [threw |-> FALSE, text |-> <<>>]
  ELSE LET d == decodeURIComponent(text)
       IN IF ~d[1] THEN [threw |-> TRUE, text |-> <<>>]
          ELSE [threw |-> FALSE, text |-> ReplacePct0A(ReplaceUnderscore(d[2]))]

(***************************************************************************)
(* Loosely typed style values: a JSON string or a JSON number              *)
(***************************************************************************)
JStr(s) == [t |-> "str", s |-> s]
JNum(n) == [t |-> "num", n |-> n]
Undefined == [t |-> "undefined"]

Truthy(v) ==
  CASE v.t = "str" -> v.s # <<>>
    [] v.t = "num" -> v.n # 0
    [] OTHER -> FALSE

Get(style, key, default) == IF key \in DOMAIN style THEN style[key] ELSE default

Digits == {"0", "1", "2", "3", "4", "5", "6", "7", "8", "9"}
DigitVal(c) ==
  CASE c = "0" -> 0 [] c = "1" -> 1 [] c = "2" -> 2 [] c = "3" -> 3 [] c = "4" -> 4
    [] c = "5" -> 5 [] c = "6" -> 6 [] c = "7" -> 7 [] c = "8" -> 8 [] c = "9" -> 9

RECURSIVE ParseIntAcc(_, _)
\* parseInt of a text that begins with a digit: its leading digits, base 10
ParseIntAcc(s, acc) ==
  IF s = <<>> \/ Head(s) \notin Digits THEN acc
  ELSE ParseIntAcc(Tail(s), 10 * acc + DigitVal(Head(s)))

RECURSIVE DigitRun(_)
\* number of leading digits of s
DigitRun(s) == IF s = <<>> \/ Head(s) \notin Digits THEN 0 ELSE 1 + DigitRun(Tail(s))

RECURSIVE MatchAllPx(_)
\* paddingString.match(/(\d+)px/g): the matched texts, left to right ([] for null)
MatchAllPx(s) ==
  IF s = <<>> THEN <<>>
  ELSE LET n == DigitRun(s)
       IN IF n > 0 /\ Len(s) >= n + 2 /\ s[n + 1] = "p" /\ s[n + 2] = "x"
          THEN <<SubSeq(s, 1, n + 2)>> \o MatchAllPx(SubSeq(s, n + 3, Len(s)))
          ELSE MatchAllPx(Tail(s))

ZeroPadding == [top |-> 0, right |-> 0, bottom |-> 0, left |-> 0]

\* the four sides that 1, 2 or 4 matched numbers give; any other count gives zeros
paddingOfNums(nums) ==
  IF Len(nums) = 1
  THEN [top |-> nums[1], right |-> nums[1], bottom |-> nums[1], left |-> nums[1]]
  ELSE IF Len(nums) = 2
  THEN [top |-> nums[1], right |-> nums[2], bottom |-> nums[1], left |-> nums[2]]
  ELSE IF Len(nums) = 4
  THEN [top |-> nums[1], right |-> nums[2], bottom |-> nums[3], left |-> nums[4]]
  ELSE ZeroPadding

\* values.map(v => parseInt(v))
parseInts(values) == [i \in 1..Len(values) |-> ParseIntAcc(values[i], 0)]

\* [threw, v]: a truthy value that is no string has no .match (TypeError)
parsePadding(paddingString) ==
  IF ~Truthy(paddingString) THEN [threw |-> FALSE, v |-> ZeroPadding]
  ELSE IF paddingString.t # "str" THEN [threw |-> TRUE, v |-> ZeroPadding]
  ELSE [threw |-> FALSE, v |-> paddingOfNums(parseInts(MatchAllPx(paddingString.s)))]

\* [threw, v]
parseBorderRadius(borderRadiusString) ==
  IF ~Truthy(borderRadiusString) THEN [threw |-> FALSE, v |-> 0]
  ELSE IF borderRadiusString.t # "str" THEN [threw |-> TRUE, v |-> 0]
  ELSE LET m == MatchAllPx(borderRadiusString.s)
       IN [threw |-> FALSE, v |-> IF m = <<>> THEN 0 ELSE ParseIntAcc(m[1], 0)]

\* parseRgba throws on a truthy value that is no string; its colour is not modelled
parseRgbaThrows(rgbaString) == Truthy(rgbaString) /\ rgbaString.t # "str"

\* parseFloat(String(borderWidth).replace('px', '')) || 0, for whole numbers
borderWidthOf(borderWidth) ==
  IF borderWidth.t = "num" THEN borderWidth.n
  ELSE IF borderWidth.t = "str" /\ DigitRun(borderWidth.s) > 0
       THEN ParseIntAcc(borderWidth.s, 0) ELSE 0

(***************************************************************************)
(* Text layout.  Lengths of the configuration are whole pixels and          *)
(* lineHeight is held in tenths (12 is 1.2); computed coordinates are in     *)
(* 1/PxUnit pixel, which keeps the halves and the tenths of the code exact.  *)
(***************************************************************************)
PxUnit == 20

Max(a, b) == IF a >= b THEN a ELSE b

\* the font file that the canvas backend binds to a family name: the file of the
\* first registration of that family, or the fallback face when there is none
faceOf(fontFamily) ==
  IF \E i \in 1..Len(backendFonts) : backendFonts[i].fam = fontFamily
  THEN backendFonts[CHOOSE i \in 1..Len(backendFonts) :
                      /\ backendFonts[i].fam = fontFamily
                      /\ \A j \in 1..(i - 1) : backendFonts[j].fam # fontFamily].file
  ELSE <<>>

\* mutant: the advance goes by whether any font at all is registered
advance_anyFace(font) ==
  IF backendFonts = <<>> THEN font.size \div 2 ELSE (3 * font.size) \div 4

\* the advance of one character, in pixels: glyph metrics are data of the face; the
\* fallback face advances fontSize/2, a registered font file 3/4 of fontSize
advance(font) ==
  IF faceOf(font.family) = <<>> THEN font.size \div 2 ELSE (3 * font.size) \div 4

\* ctx.font = `${fontWeight} ${fontSize}px ${fontFamily}`
fontOf(style) == [size |-> Get(style, "fontSize", 24),
                  family |-> Get(style, "fontFamily", "sans-serif")]

\* ctx.measureText(line).width, in pixels, with ctx.font set to font
measureText(line, font) == Len(line) * advance(font)

RECURSIVE WrapWords_dropOnFlush(_, _, _, _)
\* mutant: after a flush the new line starts empty instead of with the word
WrapWords_dropOnFlush(words, currentLine, maxWidth, font) ==
  IF words = <<>> THEN (IF currentLine # <<>> THEN <<currentLine>> ELSE <<>>)
  ELSE LET word == Head(words)
           testLine == currentLine \o (IF currentLine # <<>> THEN <<" ">> ELSE <<>>) \o word
       IN IF measureText(testLine, font) > maxWidth /\ currentLine # <<>>
          THEN <<currentLine>> \o WrapWords_dropOnFlush(Tail(words), <<>>, maxWidth, font)
          ELSE WrapWords_dropOnFlush(Tail(words), testLine, maxWidth, font)

RECURSIVE WrapWords(_, _, _, _)
\* words.forEach of the automatic wrap, with if (currentLine) push at the end
WrapWords(words, currentLine, maxWidth, font) ==
  IF words = <<>> THEN (IF currentLine # <<>> THEN <<currentLine>> ELSE <<>>)
  ELSE LET word == Head(words)
           testLine == currentLine \o (IF currentLine # <<>> THEN <<" ">> ELSE <<>>) \o word
       IN IF measureText(testLine, font) > maxWidth /\ currentLine # <<>>
          THEN <<currentLine>> \o WrapWords(Tail(words), word, maxWidth, font)
          ELSE WrapWords(Tail(words), testLine, maxWidth, font)

\* the lines one hard line contributes to measuredLines when wrapping applies
WrapLine(line, maxWidth, font) ==
  IF measureText(line, font) > maxWidth /\ maxWidth > 0
  THEN WrapWords(Split(line, " "), <<>>, maxWidth, font)
  ELSE <<line>>

RECURSIVE FlatMap(_, _, _)
FlatMap(lines, maxWidth, font) ==
  IF lines = <<>> THEN <<>>
  ELSE WrapLine(Head(lines), maxWidth, font) \o FlatMap(Tail(lines), maxWidth, font)

\* measuredLines of drawTextOnCanvas: every hard line goes through the wrap
measuredLinesText(text, w, font) == FlatMap(Split(text, "\n"), w, font)

\* measuredLines of drawElementOnCanvas, by whiteSpace
measuredLinesElement(text, textWidth, font, whiteSpace) ==
  LET lines == IF whiteSpace = "nowrap" THEN <<text>> ELSE Split(text, "\n")
  IN IF whiteSpace \in {"nowrap", "pre"} THEN lines
     ELSE FlatMap(lines, textWidth, font)

\* mutant: the free height is not held at zero from below
verticalOffset_noClamp(verticalAlign, boxHeight, lineCount, fontSize, lineHeight10) ==
  LET totalHeight == lineCount * fontSize * lineHeight10 * (PxUnit \div 10)
      free == PxUnit * boxHeight - totalHeight
  IN IF verticalAlign \in {"middle", "center"} THEN free \div 2
     ELSE IF verticalAlign = "bottom" THEN free
     ELSE 0

\* startY - top of the content box, in 1/PxUnit pixel
verticalOffset(verticalAlign, boxHeight, lineCount, fontSize, lineHeight10) ==
  LET totalHeight == lineCount * fontSize * lineHeight10 * (PxUnit \div 10)
      free == PxUnit * boxHeight - totalHeight
  IN IF verticalAlign \in {"middle", "center"} THEN Max(0, free \div 2)
     ELSE IF verticalAlign = "bottom" THEN Max(0, free)
     ELSE 0

\* textX - left of the content box, in 1/PxUnit pixel
horizontalOffset(textAlign, boxWidth) ==
  IF textAlign = "center" THEN (PxUnit * boxWidth) \div 2
  ELSE IF textAlign = "right" THEN PxUnit * boxWidth
  ELSE 0

\* mutant: the fill of a line is issued before its outline
lineOps_fillFirst(el, lines, i, style, textX, startY) ==
  LET fontSize == Get(style, "fontSize", 24)
      lineHeight10 == Get(style, "lineHeight", 12)
      strokeWidth == Get(style, "strokeWidth", 0)
      stroke == Get(style, "stroke", "#ffffff")
      at == [el |-> el, text |-> lines[i], x |-> textX,
             y |-> startY + (i - 1) * fontSize * lineHeight10 * (PxUnit \div 10),
             font |-> Get(style, "fontFamily", "sans-serif"),
             align |-> Get(style, "textAlign", "left")]
  IN <<[op |-> "fillText", at |-> at]>>
     \o (IF strokeWidth > 0 /\ stroke # "" THEN <<[op |-> "strokeText", at |-> at]>> ELSE <<>>)

\* one round of measuredLines.forEach: strokeText (when stroked) then fillText
lineOps(el, lines, i, style, textX, startY) ==
  LET fontSize == Get(style, "fontSize", 24)
      lineHeight10 == Get(style, "lineHeight", 12)
      strokeWidth == Get(style, "strokeWidth", 0)
      stroke == Get(style, "stroke", "#ffffff")
      at == [el |-> el, text |-> lines[i], x |-> textX,
             y |-> startY + (i - 1) * fontSize * lineHeight10 * (PxUnit \div 10),
             font |-> Get(style, "fontFamily", "sans-serif"),
             align |-> Get(style, "textAlign", "left")]
  IN (IF strokeWidth > 0 /\ stroke # "" THEN <<[op |-> "strokeText", at |-> at]>> ELSE <<>>)
     \o <<[op |-> "fillText", at |-> at]>>

RECURSIVE textOpsFrom(_, _, _, _, _, _)
textOpsFrom(el, lines, i, style, textX, startY) ==
  IF i > Len(lines) THEN <<>>
  ELSE lineOps(el, lines, i, style, textX, startY)
       \o textOpsFrom(el, lines, i + 1, style, textX, startY)

\* measuredLines.forEach, line by line
textOps(el, lines, style, textX, startY) == textOpsFrom(el, lines, 1, style, textX, startY)

\* drawTextOnCanvas(ctx, text, style) of server.js and of the legacy overlay:
\* the operations it does on a canvas of cw x ch
drawTextOnCanvas(el, text, style, cw, ch) ==
  LET x == Get(style, "x", 0)
      y == Get(style, "y", 0)
      w == Get(style, "width", cw)
      h == Get(style, "height", ch)
      fontSize == Get(style, "fontSize", 24)
      lines == measuredLinesText(text, w, fontOf(style))
      startY == PxUnit * y + verticalOffset(Get(style, "verticalAlign", "top"), h,
                                            Len(lines), fontSize, Get(style, "lineHeight", 12))
      textX == PxUnit * x + horizontalOffset(Get(style, "textAlign", "left"), w)
  IN [threw |-> FALSE, ops |-> textOps(el, lines, style, textX, startY)]

\* mutant: a failure of the filter step is not caught
backgroundOps_filterUncaught(el, style, x, y, w, h, filterOk) ==
  LET backgroundColor == Get(style, "backgroundColor", Undefined)
      borderRadius == Get(style, "borderRadius", Undefined)
      borderWidth == Get(style, "borderWidth", Undefined)
      filter == Get(style, "filter", Undefined)
      needsBgCanvas == Truthy(filter) \/ Truthy(backgroundColor)
                       \/ Truthy(borderRadius) \/ Truthy(borderWidth)
      radius == parseBorderRadius(borderRadius)
      s0 == [threw |-> FALSE, ops |-> <<[op |-> "createScratch", el |-> el, w |-> w, h |-> h]>>]
      s1 == IF ~Truthy(backgroundColor) THEN s0
            ELSE IF parseRgbaThrows(backgroundColor) THEN [s0 EXCEPT !.threw = TRUE]
            ELSE IF Truthy(borderRadius) /\ radius.threw THEN [s0 EXCEPT !.threw = TRUE]
            ELSE [s0 EXCEPT !.ops = Append(@, [op |-> "bgFill", el |-> el, radius |-> radius.v])]
      s2 == IF s1.threw \/ ~Truthy(filter) THEN s1
            ELSE IF ~filterOk THEN [s1 EXCEPT !.threw = TRUE]
            ELSE [s1 EXCEPT !.ops = Append(@, [op |-> "filter", el |-> el, x |-> x, y |-> y])]
      s3 == IF s2.threw \/ ~Truthy(borderWidth) \/ borderWidthOf(borderWidth) <= 0 THEN s2
            ELSE IF Truthy(borderRadius) /\ radius.threw THEN [s2 EXCEPT !.threw = TRUE]
            ELSE [s2 EXCEPT !.ops = Append(@, [op |-> "border", el |-> el,
                                               width |-> borderWidthOf(borderWidth)])]
      s4 == IF s3.threw THEN s3
            ELSE [s3 EXCEPT !.ops = Append(@, [op |-> "composite", el |-> el, x |-> x, y |-> y])]
  IN IF needsBgCanvas THEN s4 ELSE [threw |-> FALSE, ops |-> <<>>]

\* the background, filter and border part of drawElementOnCanvas
backgroundOps(el, style, x, y, w, h, filterOk) ==
  LET backgroundColor == Get(style, "backgroundColor", Undefined)
      borderRadius == Get(style, "borderRadius", Undefined)
      borderWidth == Get(style, "borderWidth", Undefined)
      filter == Get(style, "filter", Undefined)
      needsBgCanvas == Truthy(filter) \/ Truthy(backgroundColor)
                       \/ Truthy(borderRadius) \/ Truthy(borderWidth)
      radius == parseBorderRadius(borderRadius)
      s0 == [threw |-> FALSE, ops |-> <<[op |-> "createScratch", el |-> el, w |-> w, h |-> h]>>]
      s1 == IF ~Truthy(backgroundColor) THEN s0
            ELSE IF parseRgbaThrows(backgroundColor) THEN [s0 EXCEPT !.threw = TRUE]
            ELSE IF Truthy(borderRadius) /\ radius.threw THEN [s0 EXCEPT !.threw = TRUE]
            ELSE [s0 EXCEPT !.ops = Append(@, [op |-> "bgFill", el |-> el, radius |-> radius.v])]
      s2 == IF s1.threw \/ ~Truthy(filter) \/ ~filterOk THEN s1
            ELSE [s1 EXCEPT !.ops = Append(@, [op |-> "filter", el |-> el, x |-> x, y |-> y])]
      s3 == IF s2.threw \/ ~Truthy(borderWidth) \/ borderWidthOf(borderWidth) <= 0 THEN s2
            ELSE IF Truthy(borderRadius) /\ radius.threw THEN [s2 EXCEPT !.threw = TRUE]
            ELSE [s2 EXCEPT !.ops = Append(@, [op |-> "border", el |-> el,
                                               width |-> borderWidthOf(borderWidth)])]
      s4 == IF s3.threw THEN s3
            ELSE [s3 EXCEPT !.ops = Append(@, [op |-> "composite", el |-> el, x |-> x, y |-> y])]
  IN IF needsBgCanvas THEN s4 ELSE [threw |-> FALSE, ops |-> <<>>]

\* the text part of drawElementOnCanvas: the content box inside the padding, the
\* lines by whiteSpace, and the line loop
elementTextOps(el, text, style, textX, textY, textWidth, textHeight) ==
  LET fontSize == Get(style, "fontSize", 24)
      lines == measuredLinesElement(text, textWidth, fontOf(style),
                                    Get(style, "whiteSpace", "pre-wrap"))
      startY == PxUnit * textY + verticalOffset(Get(style, "verticalAlign", "top"), textHeight,
                                                Len(lines), fontSize, Get(style, "lineHeight", 12))
      textXPos == PxUnit * textX + horizontalOffset(Get(style, "textAlign", "left"), textWidth)
  IN textOps(el, lines, style, textXPos, startY)

\* what follows the background in drawElementOnCanvas, given its outcome bg
elementAfterBackground(el, text, style, x, y, w, h, bg, pad) ==
  IF bg.threw \/ pad.threw THEN [threw |-> TRUE, ops |-> bg.ops]
  ELSE [threw |-> FALSE,
        ops |-> bg.ops \o elementTextOps(el, text, style, x + pad.v.left, y + pad.v.top,
                                         w - pad.v.left - pad.v.right,
                                         h - pad.v.top - pad.v.bottom)]

\* drawElementOnCanvas(ctx, text, style) of part_002
drawElementOnCanvas(el, text, style, cw, ch, filterOk) ==
  elementAfterBackground(el, text, style, Get(style, "x", 0), Get(style, "y", 0),
                         Get(style, "width", cw), Get(style, "height", ch),
                         backgroundOps(el, style, Get(style, "x", 0), Get(style, "y", 0),
                                       Get(style, "width", cw), Get(style, "height", ch),
                                       filterOk),
                         parsePadding(Get(style, "padding", Undefined)))

(***************************************************************************)
(* The requests, configurations and environment outcomes that are explored *)
(***************************************************************************)
BASE_URL == <<"h", "t", "t", "p", "s", ":", "/", "/", "o", ".", "n", "f", "a", "r", "m", "e", "r", ".", "u", "k">>
errorImageUrl == <<"h", "t", "t", "p", "s", ":", "/", "/", "p", "u", "b", "-", "4", "5", "2", "6", "8", "c", "1", "0", "d", "a", "7", "4", "4", "c", "e", "5", "8", "e", "6", "6", "9", "5", "2", "c", "8", "d", "0", "c", "5", "0", "b", "a", ".", "r", "2", ".", "d", "e", "v", "/", "4", "0", "4", ".", "w", "e", "b", "p">>
DefaultWidth == 800
DefaultHeight == 600

Variants == {"server", "part002", "legacy"}

Path_example == <<"/", "k", "b", "d", "/", "A", "/", "A", "/", "E", "M", "O", "/", "A", "/", "1", ".", "w", "e", "b", "p">>
Path_short == <<"/", "k", "b", "d", "/", "A", "/", "1", ".", "w", "e", "b", "p">>
Path_two == <<"/", "k", "b", "d", "/", "x">>
Path_health == <<"/", "h", "e", "a", "l", "t", "h">>
Path_favicon == <<"/", "f", "a", "v", "i", "c", "o", "n", ".", "i", "c", "o">>
Path_robots == <<"/", "r", "o", "b", "o", "t", "s", ".", "t", "x", "t">>
Path_wellKnown == <<"/", ".", "w", "e", "l", "l", "-", "k", "n", "o", "w", "n", "/", "x">>
Str_favicon == <<"/", "f", "a", "v", "i", "c", "o", "n">>
Str_wellKnown == <<"/", ".", "w", "e", "l", "l", "-", "k", "n", "o", "w", "n">>

RequestPaths == {Path_example, Path_short, Path_two, Path_health, Path_favicon,
                 Path_robots, Path_wellKnown}

Txt_HelloWorld == <<"H", "e", "l", "l", "o", " ", "W", "o", "r", "l", "d">>
Txt_percent == <<"1", "0", "0", "%">>
Txt_Hi == <<"H", "i">>
Txt_a_b == <<"a", "_", "b">>
Txt_underscore == <<"_">>
Txt_altBase == <<"a", "l", "t", ".", "e", "x", "a", "m", "p", "l", "e">>

\* req.query as Express hands it to the handler (already percent-decoded once)
Query_hello == ("title" :> Txt_HelloWorld)
Query_badSub == ("title" :> Txt_Hi) @@ ("sub" :> Txt_percent)
Query_badTitle == ("title" :> Txt_percent) @@ ("sub" :> Txt_Hi)
Query_two == ("title" :> Txt_Hi) @@ ("sub" :> Txt_a_b)
Query_base == ("title" :> Txt_Hi) @@ ("baseUrl" :> Txt_altBase)
\* the one value decodes to a single space
Query_blank == ("title" :> Txt_underscore) @@ ("sub" :> Txt_Hi)
\* a parameter named like the method that the element filter calls on queryParams
Query_hasOwnProperty == ("title" :> Txt_Hi) @@ ("hasOwnProperty" :> Txt_Hi)
Query_none == <<>>

RequestQueries == {Query_hello, Query_badSub, Query_badTitle, Query_two, Query_base,
                   Query_blank, Query_hasOwnProperty, Query_none}

NoStyle == <<>>
NoFontSettings == [mode |-> "", r2FontFilename |-> <<>>]
NoImageSize == [width |-> 0, height |-> 0]

\* one element with its own box and a centred text, no imageSize, no font
Config_example ==
  [imageSize |-> NoImageSize, defaultStyle |-> NoStyle, fontSettings |-> NoFontSettings,
   elements |-> <<[query |-> "title", x |-> 10, y |-> 10, width |-> 200, height |-> 50,
                   style |-> ("textAlign" :> "center"), useR2Font |-> FALSE]>>]

\* an R2 font is declared; the first element asks for it
Config_font ==
  [imageSize |-> [width |-> 400, height |-> 300],
   defaultStyle |-> ("fontFamily" :> "Arial") @@ ("fontSize" :> 24),
   fontSettings |-> [mode |-> "r2", r2FontFilename |-> <<"f", ".", "t", "t", "f">>],
   elements |-> <<[query |-> "title", x |-> 20, y |-> 30, width |-> 100, height |-> 40,
                   style |-> ("verticalAlign" :> "middle"), useR2Font |-> TRUE],
                  [query |-> "sub", x |-> 20, y |-> 80, width |-> 100, height |-> 40,
                   style |-> ("fontFamily" :> "Georgia"), useR2Font |-> FALSE]>>]

\* background, border, filter and padding; the second element has a numeric padding,
\* the third one asks for the reserved key, the fourth one repeats the title plainly
Config_box ==
  [imageSize |-> [width |-> 400, height |-> 0], defaultStyle |-> ("strokeWidth" :> 2),
   fontSettings |-> NoFontSettings,
   elements |-> <<[query |-> "title", x |-> 5, y |-> 5, width |-> 60, height |-> 30,
                   style |-> ("backgroundColor" :> JStr(<<"r", "g", "b", "a", "(", "0", ",", "0", ",", "0", ",", "0", ".", "5", ")">>))
                             @@ ("padding" :> JStr(<<"4", "p", "x", " ", "6", "p", "x">>))
                             @@ ("borderWidth" :> JStr(<<"2", "p", "x">>))
                             @@ ("borderRadius" :> JStr(<<"8", "p", "x">>))
                             @@ ("filter" :> JStr(<<"b", "l", "u", "r", "(", "2", "p", "x", ")">>)),
                   useR2Font |-> FALSE],
                  [query |-> "sub", x |-> 5, y |-> 40, width |-> 60, height |-> 30,
                   style |-> ("padding" :> JNum(12)), useR2Font |-> FALSE],
                  [query |-> "baseUrl", x |-> 5, y |-> 80, width |-> 60, height |-> 30,
                   style |-> NoStyle, useR2Font |-> FALSE],
                  [query |-> "title", x |-> 5, y |-> 120, width |-> 60, height |-> 30,
                   style |-> NoStyle, useR2Font |-> FALSE]>>]

Configs == {Config_example, Config_font, Config_box}
EmptyConfig == [imageSize |-> NoImageSize, defaultStyle |-> NoStyle,
                fontSettings |-> NoFontSettings, elements |-> <<>>]

\* natural sizes of the base images
Images == {[width |-> 800, height |-> 600], [width |-> 1024, height |-> 768]}
NoImage == [width |-> 0, height |-> 0]

FetchOutcomes == {"ok", "non2xx", "reject"}
FontFetchOutcomes == {"ok", "empty", "non2xx", "reject"}
\* GlobalFonts.registerFromPath returns true, returns false, or throws
RegisterOutcomes == {"true", "false", "throw"}
ErrImageOutcomes == {"image", "empty", "undecodable", "reject"}

FontFamilies == {"CustomR2Font", "OtherFont"}
Callers == 1..MaxCallers
FontUrls == {buildResourceUrl(BASE_URL, <<"k">>, <<"f", "o", "n", "t", "s", "/", "f", ".", "t", "t", "f">>),
             buildResourceUrl(Txt_altBase, <<"k">>, <<"f", "o", "n", "t", "s", "/", "f", ".", "t", "t", "f">>),
             buildResourceUrl(<<" ">>, <<"k">>, <<"f", "o", "n", "t", "s", "/", "f", ".", "t", "t", "f">>)}

(***************************************************************************)
(* registerFontFromUrl                                                     *)
(***************************************************************************)
IdleCall == [pc |-> "idle", url |-> <<>>, fam |-> "", sawRegistered |-> FALSE, work |-> 0]

Bump(f, k) == [f EXCEPT ![k] = @ + 1]

\* mutant: the family is added to the set before the backend registration is tried
RegisterStep_addFirst(c, url, fam, saw, prior, reg) ==
  /\ fstat' = [fstat EXCEPT !.regCalls = Bump(@, fam), !.fileOps = Bump(@, fam)]
  /\ backendFonts' = IF reg = "true"
                     THEN Append(backendFonts, [fam |-> fam, file |-> cacheFileOf(url)])
                     ELSE backendFonts
  /\ registeredFonts' = registeredFonts \cup {fam}
  /\ fcall' = [fcall EXCEPT ![c] = [pc |-> IF reg = "throw" THEN "rejected" ELSE "resolved",
                                    url |-> url, fam |-> fam, sawRegistered |-> saw,
                                    work |-> prior + 2]]

\* GlobalFonts.registerFromPath(cacheFile, fontFamily) and registeredFonts.add, by
\* a call c right after it has read or written its cache file; prior counts the
\* operations the call did before
RegisterStep(c, url, fam, saw, prior, reg) ==
  /\ fstat' = [fstat EXCEPT !.regCalls = Bump(@, fam), !.fileOps = Bump(@, fam)]
  /\ backendFonts' = IF reg = "true"
                     THEN Append(backendFonts, [fam |-> fam, file |-> cacheFileOf(url)])
                     ELSE backendFonts
  /\ registeredFonts' = IF reg = "throw" THEN registeredFonts ELSE registeredFonts \cup {fam}
  /\ fcall' = [fcall EXCEPT ![c] = [pc |-> IF reg = "throw" THEN "rejected" ELSE "resolved",
                                    url |-> url, fam |-> fam, sawRegistered |-> saw,
                                    work |-> prior + 2]]

\* mutant: the early return on an already registered family is missing
FontCallStart_noEarlyReturn(c, fontUrl, fontFamily, reg) ==
  IF ~UrlParses(fontUrl)
  THEN /\ fcall' = [fcall EXCEPT ![c] = [pc |-> "rejected", url |-> fontUrl, fam |-> fontFamily,
                                         sawRegistered |-> fontFamily \in registeredFonts,
                                         work |-> 0]]
       /\ UNCHANGED <<registeredFonts, cacheFiles, backendFonts, fstat>>
  ELSE IF cacheFileOf(fontUrl) \in DOMAIN cacheFiles
  THEN /\ RegisterStep(c, fontUrl, fontFamily, fontFamily \in registeredFonts, 0, reg)
       /\ UNCHANGED cacheFiles
  ELSE /\ fcall' = [fcall EXCEPT ![c] = [pc |-> "fetching", url |-> fontUrl, fam |-> fontFamily,
                                         sawRegistered |-> fontFamily \in registeredFonts,
                                         work |-> 1]]
       /\ fstat' = [fstat EXCEPT !.fetches = Bump(@, fontFamily)]
       /\ UNCHANGED <<registeredFonts, cacheFiles, backendFonts>>

\* registerFontFromUrl(fontUrl, fontFamily) up to its first await, run by caller c:
\* the early return, the URL parse, and the cache hit with its registration
FontCallStart(c, fontUrl, fontFamily, reg) ==
  IF fontFamily \in registeredFonts
  THEN /\ fcall' = [fcall EXCEPT ![c] = [pc |-> "resolved", url |-> fontUrl, fam |-> fontFamily,
                                         sawRegistered |-> TRUE, work |-> 0]]
       /\ UNCHANGED <<registeredFonts, cacheFiles, backendFonts, fstat>>
  ELSE IF ~UrlParses(fontUrl)
  THEN /\ fcall' = [fcall EXCEPT ![c] = [pc |-> "rejected", url |-> fontUrl, fam |-> fontFamily,
                                         sawRegistered |-> FALSE, work |-> 0]]
       /\ UNCHANGED <<registeredFonts, cacheFiles, backendFonts, fstat>>
  ELSE IF cacheFileOf(fontUrl) \in DOMAIN cacheFiles
  THEN /\ RegisterStep(c, fontUrl, fontFamily, FALSE, 0, reg)
       /\ UNCHANGED cacheFiles
  ELSE /\ fcall' = [fcall EXCEPT ![c] = [pc |-> "fetching", url |-> fontUrl, fam |-> fontFamily,
                                         sawRegistered |-> FALSE, work |-> 1]]
       /\ fstat' = [fstat EXCEPT !.fetches = Bump(@, fontFamily)]
       /\ UNCHANGED <<registeredFonts, cacheFiles, backendFonts>>

\* mutant: the body is written to the cache before it is tested for emptiness
FontFetchSettle_writeFirst(c, outcome, reg) ==
  /\ fcall[c].pc = "fetching"
  /\ IF outcome = "ok"
     THEN /\ cacheFiles' = (cacheFileOf(fcall[c].url) :> [from |-> fcall[c].url]) @@ cacheFiles
          /\ RegisterStep(c, fcall[c].url, fcall[c].fam, fcall[c].sawRegistered, fcall[c].work, reg)
     ELSE /\ fcall' = [fcall EXCEPT ![c].pc = "rejected"]
          /\ cacheFiles' = IF outcome = "empty"
                           THEN (cacheFileOf(fcall[c].url) :> [from |-> <<>>]) @@ cacheFiles
                           ELSE cacheFiles
          /\ UNCHANGED <<registeredFonts, backendFonts, fstat>>

\* the rest of registerFontFromUrl, once fetch(fontUrl) has settled for caller c
FontFetchSettle(c, outcome, reg) ==
  /\ fcall[c].pc = "fetching"
  /\ IF outcome = "ok"
     THEN /\ cacheFiles' = (cacheFileOf(fcall[c].url) :> [from |-> fcall[c].url]) @@ cacheFiles
          /\ RegisterStep(c, fcall[c].url, fcall[c].fam, fcall[c].sawRegistered, fcall[c].work, reg)
     ELSE /\ fcall' = [fcall EXCEPT ![c].pc = "rejected"]
          /\ UNCHANGED <<registeredFonts, cacheFiles, backendFonts, fstat>>

FontSettled(c) == fcall[c].pc \in {"resolved", "rejected"}

(***************************************************************************)
(* app.get('/*'): the wildcard overlay handler, one request at a time       *)
(***************************************************************************)
R2Family == "CustomR2Font"
NoResponse == [status |-> 0, body |-> "none"]

IdleRequest ==
  [pc |-> "idle", pathname |-> <<>>, query |-> <<>>, info |-> Thrown("none"),
   customBaseUrl |-> <<>>, configUrl |-> <<>>, imageUrl |-> <<>>, fontUrl |-> <<>>,
   cfgFetch |-> "none", imgFetch |-> "none", parsed |-> FALSE, config |-> EmptyConfig,
   imgLoad |-> "none", image |-> NoImage, width |-> 0, height |-> 0,
   failedAt |-> "none", encodes |-> 0]

FontVars == <<registeredFonts, cacheFiles, backendFonts, fcall, fstat>>
PureVars == <<arg, result>>

\* fontSettings.mode === 'r2' && fontSettings.r2FontFilename
FontDeclared(config) ==
  config.fontSettings.mode = "r2" /\ config.fontSettings.r2FontFilename # <<>>

\* queryParams: req.query without the key baseUrl
queryParamsOf(query) == [k \in DOMAIN query \ {"baseUrl"} |-> query[k]]

\* elements.filter(el => el?.query && queryParams.hasOwnProperty(el.query)), as indexes
textElementsOf(config, query) ==
  SelectSeq([i \in 1..Len(config.elements) |-> i],
            LAMBDA i : config.elements[i].query # ""
                       /\ config.elements[i].query \in DOMAIN queryParamsOf(query))

\* queryParams.hasOwnProperty(el.query) is no call of Object.prototype.hasOwnProperty
\* when the request has a parameter of that name: queryParams.hasOwnProperty is then
\* that parameter's text and calling it is a TypeError, at the first element with a
\* truthy query
filterThrows(config, query) ==
  /\ "hasOwnProperty" \in DOMAIN queryParamsOf(query)
  /\ \E i \in 1..Len(config.elements) : config.elements[i].query # ""

\* const style = { ...defaultStyle, ...element.style } and the R2 font override
elementStyle(v, config, element, r2FontAvailable) ==
  LET style == element.style @@ config.defaultStyle
      useR2 == IF v = "part002"
               THEN element.useR2Font /\ config.fontSettings.mode = "r2" /\ r2FontAvailable
               ELSE element.useR2Font /\ config.fontSettings.mode = "r2"
  IN IF useR2 THEN ("fontFamily" :> R2Family) @@ style ELSE style

\* the body of textElements.forEach for element i: [threw, ops]
drawOne(v, config, query, i, r2FontAvailable, cw, ch, filterOk) ==
  LET element == config.elements[i]
      style == elementStyle(v, config, element, r2FontAvailable)
      text == decodeText(queryParamsOf(query)[element.query])
  IN IF text.threw THEN [threw |-> TRUE, ops |-> <<>>]
     ELSE IF text.text = <<>> THEN [threw |-> FALSE, ops |-> <<>>]
     ELSE IF v = "part002" THEN drawElementOnCanvas(i, text.text, style, cw, ch, filterOk)
     ELSE drawTextOnCanvas(i, text.text, style, cw, ch)

RECURSIVE drawAll_lastFirst(_, _, _, _, _, _, _, _)
\* mutant: the loop paints the later elements first
drawAll_lastFirst(v, config, query, idx, r2FontAvailable, cw, ch, filterOk) ==
  IF idx = <<>> THEN [threw |-> FALSE, ops |-> <<>>]
  ELSE LET rest == drawAll_lastFirst(v, config, query, Tail(idx), r2FontAvailable, cw, ch, filterOk)
       IN IF rest.threw THEN rest
          ELSE LET one == drawOne(v, config, query, Head(idx), r2FontAvailable, cw, ch, filterOk)
               IN [threw |-> one.threw, ops |-> rest.ops \o one.ops]

RECURSIVE drawAll(_, _, _, _, _, _, _, _)
\* textElements.forEach(...): stops at the first element that throws
drawAll(v, config, query, idx, r2FontAvailable, cw, ch, filterOk) ==
  IF idx = <<>> THEN [threw |-> FALSE, ops |-> <<>>]
  ELSE LET one == drawOne(v, config, query, Head(idx), r2FontAvailable, cw, ch, filterOk)
       IN IF one.threw THEN one
          ELSE LET rest == drawAll(v, config, query, Tail(idx), r2FontAvailable, cw, ch, filterOk)
               IN [threw |-> rest.threw, ops |-> one.ops \o rest.ops]

\* const width = imageSize.width || 800 (server.js, part_002)
\*             = imageSize.width || image.width || 800 (legacy); height alike
surfaceSize(v, imageSize, image) ==
  IF v = "legacy"
  THEN [width |-> IF imageSize.width # 0 THEN imageSize.width
                  ELSE IF image.width # 0 THEN image.width ELSE DefaultWidth,
        height |-> IF imageSize.height # 0 THEN imageSize.height
                   ELSE IF image.height # 0 THEN image.height ELSE DefaultHeight]
  ELSE [width |-> IF imageSize.width # 0 THEN imageSize.width ELSE DefaultWidth,
        height |-> IF imageSize.height # 0 THEN imageSize.height ELSE DefaultHeight]

surfaceOps(size) ==
  <<[op |-> "createCanvas", width |-> size.width, height |-> size.height],
    [op |-> "drawImage", width |-> size.width, height |-> size.height]>>

\* a throw inside the try block: control goes to the catch block
Fail(stage) == rq' = [rq EXCEPT !.pc = "catch", !.failedAt = stage]

ReqVars == <<variant, rq, canvas, resp, rounds>>

\* the synchronous start of the handler, up to await Promise.all of the two fetches
Begin(pathname, query) ==
  /\ rq.pc \in {"idle", "done", "crashed"}
  /\ rounds < MaxRounds
  /\ fcall[0].pc # "fetching"
  /\ rounds' = rounds + 1
  /\ canvas' = <<>>
  /\ fcall' = [fcall EXCEPT ![0] = IdleCall]
  /\ LET fresh == [IdleRequest EXCEPT !.pathname = pathname, !.query = query]
         info == extractPathInfo(pathname)
         customBaseUrl == IF "baseUrl" \in DOMAIN query /\ query["baseUrl"] # <<>>
                          THEN query["baseUrl"] ELSE BASE_URL
     IN IF pathname = Path_health
        THEN rq' = [fresh EXCEPT !.pc = "done"] /\ resp' = [status |-> 200, body |-> "json"]
        ELSE IF \/ StartsWith(pathname, Str_favicon)
                \/ pathname = Path_robots
                \/ StartsWith(pathname, Str_wellKnown)
        THEN rq' = [fresh EXCEPT !.pc = "done"] /\ resp' = [status |-> 404, body |-> "none"]
        ELSE IF IsThrown(info)
        THEN rq' = [fresh EXCEPT !.pc = "catch", !.failedAt = "path"] /\ resp' = NoResponse
        ELSE /\ rq' = [fresh EXCEPT !.pc = "fetching", !.info = info,
                         !.customBaseUrl = customBaseUrl,
                         !.imageUrl = buildResourceUrl(customBaseUrl, info.bucketName, info.imagePath),
                         !.configUrl = buildResourceUrl(customBaseUrl, info.bucketName, info.configKey),
                         !.cfgFetch = "pending", !.imgFetch = "pending"]
             /\ resp' = NoResponse
  /\ UNCHANGED <<variant, registeredFonts, cacheFiles, backendFonts, fstat, calls, arg, result>>

\* fetch(configUrl) settles; Promise.all goes on when both are ok, rejects on a failure
CfgFetchSettle(outcome) ==
  /\ rq.pc = "fetching" /\ rq.cfgFetch = "pending"
  /\ IF outcome # "ok" THEN rq' = [rq EXCEPT !.pc = "catch", !.failedAt = "configFetch",
                                             !.cfgFetch = "failed"]
     ELSE rq' = [rq EXCEPT !.cfgFetch = "ok",
                           !.pc = IF rq.imgFetch = "ok" THEN "bodies" ELSE "fetching"]
  /\ UNCHANGED <<variant, canvas, resp, rounds, FontVars, calls, PureVars>>

\* fetch(imageUrl) settles
ImgFetchSettle(outcome) ==
  /\ rq.pc = "fetching" /\ rq.imgFetch = "pending"
  /\ IF outcome # "ok" THEN rq' = [rq EXCEPT !.pc = "catch", !.failedAt = "imageFetch",
                                             !.imgFetch = "failed"]
     ELSE rq' = [rq EXCEPT !.imgFetch = "ok",
                           !.pc = IF rq.cfgFetch = "ok" THEN "bodies" ELSE "fetching"]
  /\ UNCHANGED <<variant, canvas, resp, rounds, FontVars, calls, PureVars>>

\* configRes.json() and imageRes.arrayBuffer() settle; then the config is taken apart,
\* the size and the font URL are computed, loadImage is begun and (server.js,
\* part_002) registerFontFromUrl is called
ReadBodies(jsonOk, config, bufferOk, reg) ==
  /\ rq.pc = "bodies"
  /\ IF ~jsonOk THEN Fail("jsonParse") /\ UNCHANGED FontVars
     ELSE IF ~bufferOk THEN Fail("bodyRead") /\ UNCHANGED FontVars
     ELSE IF variant = "legacy"
     THEN /\ rq' = [rq EXCEPT !.pc = "loading", !.parsed = TRUE, !.config = config,
                              !.imgLoad = "pending"]
          /\ UNCHANGED FontVars
     ELSE LET size == surfaceSize(variant, config.imageSize, NoImage)
              fontUrl == IF FontDeclared(config)
                         THEN buildResourceUrl(rq.customBaseUrl, rq.info.bucketName,
                                rq.info.configDir \o Str_fonts \o config.fontSettings.r2FontFilename)
                         ELSE <<>>
          IN /\ rq' = [rq EXCEPT !.pc = "loading", !.parsed = TRUE, !.config = config,
                                 !.imgLoad = "pending", !.fontUrl = fontUrl,
                                 !.width = size.width, !.height = size.height]
             /\ IF fontUrl # <<>> THEN FontCallStart(0, fontUrl, R2Family, reg)
                ELSE UNCHANGED FontVars
  /\ UNCHANGED <<variant, canvas, resp, rounds, calls, PureVars>>

\* loadImage settles.  The legacy overlay goes on at once: size, canvas, base image,
\* and the call of registerFontFromUrl
LoadImageSettle(ok, image, reg) ==
  /\ rq.pc = "loading" /\ rq.imgLoad = "pending"
  /\ IF ~ok THEN Fail("imageDecode") /\ UNCHANGED <<canvas, FontVars>>
     ELSE IF variant # "legacy"
     THEN /\ rq' = [rq EXCEPT !.imgLoad = "ok", !.image = image]
          /\ UNCHANGED <<canvas, FontVars>>
     ELSE LET size == surfaceSize(variant, rq.config.imageSize, image)
              fontUrl == IF FontDeclared(rq.config)
                         THEN buildResourceUrl(rq.customBaseUrl, rq.info.bucketName,
                                rq.info.configDir \o Str_fonts \o rq.config.fontSettings.r2FontFilename)
                         ELSE <<>>
          IN /\ rq' = [rq EXCEPT !.pc = "fontwait", !.imgLoad = "ok", !.image = image,
                                 !.fontUrl = fontUrl,
                                 !.width = size.width, !.height = size.height]
             /\ canvas' = surfaceOps(size)
             /\ IF fontUrl # <<>> THEN FontCallStart(0, fontUrl, R2Family, reg)
                ELSE UNCHANGED FontVars
  /\ UNCHANGED <<variant, resp, rounds, calls, PureVars>>

\* the request's own call of registerFontFromUrl goes on after its fetch
FontSettleReq(outcome, reg) ==
  /\ FontFetchSettle(0, outcome, reg)
  /\ UNCHANGED <<ReqVars, calls, PureVars>>

\* mutant: the handler does not wait for the font call
ReadyToRender_noFontWait ==
  /\ rq.imgLoad = "ok"
  /\ rq.pc = IF variant = "legacy" THEN "fontwait" ELSE "loading"

\* what the handler awaits before it draws: the image and the font call
ReadyToRender ==
  /\ rq.imgLoad = "ok"
  /\ rq.pc = IF variant = "legacy" THEN "fontwait" ELSE "loading"
  /\ rq.fontUrl = <<>> \/ FontSettled(0)

\* canvas creation (server.js, part_002), the element loop, the encoding and res.send;
\* rq.encodes counts the calls of canvas.toBuffer on the rendered surface
Render(filterOk, encodeOk) ==
  /\ ReadyToRender
  /\ LET r2FontAvailable == rq.fontUrl # <<>> /\ fcall[0].pc = "resolved"
                            /\ R2Family \in registeredFonts
         base == IF variant = "legacy" THEN canvas
                 ELSE surfaceOps([width |-> rq.width, height |-> rq.height])
         drawn == drawAll(variant, rq.config, rq.query, textElementsOf(rq.config, rq.query),
                          r2FontAvailable, rq.width, rq.height, filterOk)
     IN /\ canvas' = IF filterThrows(rq.config, rq.query) THEN base ELSE base \o drawn.ops
        /\ IF filterThrows(rq.config, rq.query) THEN Fail("elementFilter") /\ UNCHANGED resp
           ELSE IF drawn.threw THEN Fail("compositing") /\ UNCHANGED resp
           ELSE IF ~encodeOk
           THEN /\ rq' = [rq EXCEPT !.pc = "catch", !.failedAt = "encoding", !.encodes = 1]
                /\ UNCHANGED resp
           ELSE /\ rq' = [rq EXCEPT !.pc = "done", !.encodes = 1]
                /\ resp' = [status |-> 200, body |-> "rendered"]
  /\ UNCHANGED <<variant, rounds, FontVars, calls, PureVars>>

\* the catch block: createErrorImage and res.send (server.js, legacy), or the fetch of
\* the error image (part_002)
HandleError(errorImageOk) ==
  /\ rq.pc = "catch"
  /\ IF variant = "part002" THEN rq' = [rq EXCEPT !.pc = "errfetch"] /\ UNCHANGED resp
     ELSE IF errorImageOk
     THEN rq' = [rq EXCEPT !.pc = "done"] /\ resp' = [status |-> 500, body |-> "placeholder"]
     ELSE rq' = [rq EXCEPT !.pc = "crashed"] /\ UNCHANGED resp
  /\ UNCHANGED <<variant, canvas, rounds, FontVars, calls, PureVars>>

\* part_002: fetch(errorImageUrl) and arrayBuffer() settle; the body is sent as it is
ErrImageSettle(outcome) ==
  /\ rq.pc = "errfetch"
  /\ IF outcome = "reject" THEN rq' = [rq EXCEPT !.pc = "crashed"] /\ UNCHANGED resp
     ELSE /\ rq' = [rq EXCEPT !.pc = "done"]
          /\ resp' = [status |-> 500,
                      body |-> IF outcome = "image" THEN "placeholder" ELSE outcome]
  /\ UNCHANGED <<variant, canvas, rounds, FontVars, calls, PureVars>>

(***************************************************************************)
(* Direct, overlapping calls of registerFontFromUrl                        *)
(***************************************************************************)
CallRegister(c, fontUrl, fontFamily, reg) ==
  /\ fcall[c].pc # "fetching"
  /\ calls < MaxCalls
  /\ calls' = calls + 1
  /\ FontCallStart(c, fontUrl, fontFamily, reg)
  /\ UNCHANGED <<ReqVars, PureVars>>

CallSettle(c, outcome, reg) ==
  /\ FontFetchSettle(c, outcome, reg)
  /\ UNCHANGED <<ReqVars, calls, PureVars>>

(***************************************************************************)
(* extractPathInfo applied to generated pathnames                          *)
(***************************************************************************)
PathAlphabet == {"/", "a", "b"}
PathInputs == UNION {[1..n -> PathAlphabet] : n \in 0..MaxPathLen}
                \cup {Path_example, Path_short, Path_two}

ApplyExtractPathInfo ==
  /\ result = NotYet
  /\ result' = extractPathInfo(arg)
  /\ UNCHANGED <<arg, ReqVars, FontVars, calls>>

(***************************************************************************)
(* The affection-window service (part_001, lines 1 to 443)                 *)
(***************************************************************************)
DigitChar(d) ==
  CASE d = 0 -> "0" [] d = 1 -> "1" [] d = 2 -> "2" [] d = 3 -> "3" [] d = 4 -> "4"
    [] d = 5 -> "5" [] d = 6 -> "6" [] d = 7 -> "7" [] d = 8 -> "8" [] d = 9 -> "9"

RECURSIVE toString(_)
\* Number.prototype.toString of a whole number that is not negative
toString(n) == IF n < 10 THEN <<DigitChar(n)>> ELSE toString(n \div 10) \o <<DigitChar(n % 10)>>

Min(a, b) == IF a <= b THEN a ELSE b

\* Math.round((value / max) * 100), for value >= 0 and max > 0
roundedPercent(value, max) == (200 * value + max) \div (2 * max)

\* formatAffectionValue(value, max, format)
formatAffectionValue(value, max, format) ==
  CASE format = "fraction" -> toString(value) \o <<"/">> \o toString(max)
    [] format = "percent" -> toString(roundedPercent(value, max)) \o <<"%">>
    [] OTHER -> toString(value)

DefaultMaxAffection == 100
DefaultBarWidth == 180

\* mutant: the percentage is held to 100 from above only
fillPercent_noFloor(value, maxAffection) ==
  LET den == IF maxAffection < 0 THEN 0 - maxAffection ELSE maxAffection
      num == IF maxAffection < 0 THEN 0 - 100 * value ELSE 100 * value
  IN [num |-> Min(100 * den, num), den |-> den]

\* fillPercent = Math.min(100, Math.max(0, (value / maxAffection) * 100)), as the
\* fraction num/den with den > 0; maxAffection is not zero
fillPercent(value, maxAffection) ==
  LET den == IF maxAffection < 0 THEN 0 - maxAffection ELSE maxAffection
      num == IF maxAffection < 0 THEN 0 - 100 * value ELSE 100 * value
  IN [num |-> Min(100 * den, Max(0, num)), den |-> den]

\* what renderAffectionWindow paints for a value: the text of the value and the width
\* of the filled part of the bar, in whole pixels
renderAffectionWindow(configMax, format, value) ==
  LET maxAffection == IF configMax # 0 THEN configMax ELSE DefaultMaxAffection
      percent == fillPercent(value, maxAffection)
  IN [valueText |-> formatAffectionValue(value, maxAffection, format),
      fillWidth |-> (DefaultBarWidth * percent.num) \div (100 * percent.den)]

\* parseInt(req.query.Value) || 0: the whole number a text begins with, its sign
\* included; 0 for a missing parameter and for a text that begins with no number
parseValue(v) ==
  IF v = Undefined \/ v.s = <<>> THEN 0
  ELSE IF Head(v.s) = "-"
  THEN (IF DigitRun(Tail(v.s)) > 0 THEN 0 - ParseIntAcc(Tail(v.s), 0) ELSE 0)
  ELSE IF DigitRun(v.s) > 0 THEN ParseIntAcc(v.s, 0) ELSE 0

\* the fill of the affection bar for the Value parameter of a request: the
\* percentage and the width as fractions, and whether the fill bar is drawn
affectionBar(configMax, Value) ==
  LET maxAffection == IF configMax # 0 THEN configMax ELSE DefaultMaxAffection
      percent == fillPercent(parseValue(Value), maxAffection)
  IN [percentNum |-> percent.num, percentDen |-> percent.den,
      widthNum |-> DefaultBarWidth * percent.num, widthDen |-> 100 * percent.den,
      fillDrawn |-> DefaultBarWidth * percent.num > 0]

(***************************************************************************)
(* Pure functions applied to generated inputs                              *)
(***************************************************************************)
SeqsUpTo(A, n) == UNION {[1..k -> A] : k \in 0..n}

WrapAlphabet == {"a", " ", "\n"}
WrapInputs ==
  [f : {"wrap"}, text : SeqsUpTo(WrapAlphabet, MaxWrapLen), width : {0, 24, 48},
   padding : {0, 20}, whiteSpace : {"pre-wrap", "normal"}]

NoWrapInputs ==
  [f : {"nowrap"}, text : SeqsUpTo(WrapAlphabet, MaxWrapLen), width : {0, 24},
   whiteSpace : {"nowrap", "pre"}]

AlignInputs ==
  [f : {"align"}, verticalAlign : {"top", "middle", "center", "bottom", "baseline"},
   height : (0 - MaxHeight)..MaxHeight, lineCount : 0..3]

DecodeAlphabet == {"5", "_", "%", "2", "0", "A", "\\", "n"}
DecodeInputs == [f : {"decode"}, text : SeqsUpTo(DecodeAlphabet, MaxDecodeLen)]

PaddingTokens == {<<"4", "p", "x">>, <<"1", "2", "p", "x">>, <<"1", "6", "p", "x">>,
                  <<"a", "u", "t", "o">>}
PaddingInputs ==
  [f : {"padding"},
   padding : {Undefined} \cup {JStr(Join(t, <<" ">>)) : t \in SeqsUpTo(PaddingTokens, MaxTokens)}]

AffectionInputs ==
  [f : {"affection"}, maxAffection : {0, 5, 10}, format : {"number", "fraction", "percent"},
   value : 0..MaxValue]

ValueAlphabet == {"-", "1", "5", "a"}
BarInputs ==
  [f : {"bar"}, maxAffection : {0, 0 - 5, 5, 10},
   Value : {Undefined} \cup {JStr(s) : s \in SeqsUpTo(ValueAlphabet, MaxValueLen)}]

PureInputs == BarInputs \cup WrapInputs \cup NoWrapInputs \cup AlignInputs \cup DecodeInputs \cup PaddingInputs
                \cup AffectionInputs

WrapFont == [size |-> 24, family |-> "sans-serif"]
AlignFontSize == 10
AlignLineHeight10 == 12

PureRest == <<arg, ReqVars, FontVars, calls>>

\* the wrap of drawTextOnCanvas and of drawElementOnCanvas on the content width
ApplyWrap ==
  /\ result = NotYet /\ arg.f = "wrap"
  /\ result' = [text |-> measuredLinesText(arg.text, arg.width - 2 * arg.padding, WrapFont),
                element |-> measuredLinesElement(arg.text, arg.width - 2 * arg.padding,
                                                 WrapFont, arg.whiteSpace)]
  /\ UNCHANGED PureRest

\* the lines of drawElementOnCanvas in the modes that do not wrap
ApplyNoWrap ==
  /\ result = NotYet /\ arg.f = "nowrap"
  /\ result' = [lines |-> measuredLinesElement(arg.text, arg.width, WrapFont, arg.whiteSpace)]
  /\ UNCHANGED PureRest

ApplyVerticalOffset ==
  /\ result = NotYet /\ arg.f = "align"
  /\ result' = [offset |-> verticalOffset(arg.verticalAlign, arg.height, arg.lineCount,
                                          AlignFontSize, AlignLineHeight10)]
  /\ UNCHANGED PureRest

ApplyDecodeText ==
  /\ result = NotYet /\ arg.f = "decode"
  /\ result' = decodeText(arg.text)
  /\ UNCHANGED PureRest

ApplyParsePadding ==
  /\ result = NotYet /\ arg.f = "padding"
  /\ result' = parsePadding(arg.padding)
  /\ UNCHANGED PureRest

ApplyRenderAffectionWindow ==
  /\ result = NotYet /\ arg.f = "affection"
  /\ result' = renderAffectionWindow(arg.maxAffection, arg.format, arg.value)
  /\ UNCHANGED PureRest

ApplyAffectionBar ==
  /\ result = NotYet /\ arg.f = "bar"
  /\ result' = affectionBar(arg.maxAffection, arg.Value)
  /\ UNCHANGED PureRest

(***************************************************************************)
(* app.get('/:bucket/:name.json'): the affection-window handler, one request *)
(***************************************************************************)
WindowInputs ==
  [f : {"window"}, hasImageUrl : BOOLEAN, hasName : BOOLEAN, maxAffection : {0, 10},
   Value : {Undefined, JStr(<<"5">>), JStr(<<"1", "5">>)}]

\* what renderAffectionWindow paints after the image part: the name when there is
\* one, the value text, the bar and, when its width is above 0, the fill
windowTail(r) ==
  [r EXCEPT !.pc = "encode",
            !.painted = @ \o (IF arg.hasName THEN <<"name">> ELSE <<>>)
                          \o <<"valueText", "barBackground">>
                          \o (IF affectionBar(arg.maxAffection, arg.Value).fillDrawn
                              THEN <<"barFill">> ELSE <<>>)]

\* renderAffectionWindow up to its first await: the canvas and the container, then
\* loadImage when the config has an imageUrl, else all the rest
windowHead(r, renderOk) ==
  IF ~renderOk THEN [r EXCEPT !.pc = "catch", !.failedAt = "render"]
  ELSE IF arg.hasImageUrl THEN [r EXCEPT !.pc = "imgLoad", !.painted = <<"container">>]
  ELSE windowTail([r EXCEPT !.painted = <<"container">>])

AffectionRest == <<arg, ReqVars, FontVars, calls>>

\* the start of the handler, up to await fetch(jsonUrl)
AffBegin ==
  /\ result = NotYet /\ arg.f = "window"
  /\ result' = [pc |-> "jsonFetch", value |-> parseValue(arg.Value), imageBuffer |-> FALSE,
                imageFailed |-> FALSE, painted |-> <<>>, status |-> 0, body |-> "none",
                failedAt |-> "none"]
  /\ UNCHANGED AffectionRest

\* fetch(jsonUrl) settles
AffJsonFetchSettle(outcome) ==
  /\ result # NotYet /\ result.pc = "jsonFetch"
  /\ result' = IF outcome = "ok" THEN [result EXCEPT !.pc = "jsonBody"]
               ELSE [result EXCEPT !.pc = "catch", !.failedAt = "jsonFetch"]
  /\ UNCHANGED AffectionRest

\* jsonRes.json() settles; with an imageUrl the image is fetched, without one the
\* window is rendered
AffJsonBodySettle(jsonOk, renderOk) ==
  /\ result # NotYet /\ result.pc = "jsonBody"
  /\ result' = IF ~jsonOk THEN [result EXCEPT !.pc = "catch", !.failedAt = "jsonParse"]
               ELSE IF arg.hasImageUrl THEN [result EXCEPT !.pc = "imgFetch"]
               ELSE windowHead(result, renderOk)
  /\ UNCHANGED AffectionRest

\* fetch(config.imageUrl) and arrayBuffer() settle, a failure being caught; the
\* window is rendered with the buffer or without one
AffImgFetchSettle(outcome, bodyOk, renderOk) ==
  /\ result # NotYet /\ result.pc = "imgFetch"
  /\ result' = windowHead([result EXCEPT !.imageBuffer = (outcome = "ok" /\ bodyOk),
                                         !.imageFailed = ~(outcome = "ok" /\ bodyOk)],
                          renderOk)
  /\ UNCHANGED AffectionRest

\* mutant: a failure of loadImage leaves renderAffectionWindow
AffLoadImageSettle_fatal(ok) ==
  /\ result # NotYet /\ result.pc = "imgLoad"
  /\ result' = IF ok THEN windowTail([result EXCEPT !.painted = @ \o <<"image", "imageBorder">>,
                                                    !.imageFailed = FALSE])
               ELSE [result EXCEPT !.pc = "catch", !.failedAt = "imageLoad",
                                   !.imageFailed = TRUE]
  /\ UNCHANGED AffectionRest

\* loadImage(imageBuffer), or loadImage(config.imageUrl) when there is no buffer,
\* settles, a failure being caught; the rest of the window is painted
AffLoadImageSettle(ok) ==
  /\ result # NotYet /\ result.pc = "imgLoad"
  /\ result' = IF ok THEN windowTail([result EXCEPT !.painted = @ \o <<"image", "imageBorder">>,
                                                    !.imageFailed = FALSE])
               ELSE windowTail([result EXCEPT !.imageFailed = TRUE])
  /\ UNCHANGED AffectionRest

\* canvas.toBuffer('image/webp') and res.send
AffEncode(encodeOk) ==
  /\ result # NotYet /\ result.pc = "encode"
  /\ result' = IF encodeOk THEN [result EXCEPT !.pc = "done", !.status = 200, !.body = "rendered"]
               ELSE [result EXCEPT !.pc = "catch", !.failedAt = "encoding"]
  /\ UNCHANGED AffectionRest

\* the catch block: createErrorImage and res.send with status 500
AffHandleError(errorImageOk) ==
  /\ result # NotYet /\ result.pc = "catch"
  /\ result' = IF errorImageOk
               THEN [result EXCEPT !.pc = "done", !.status = 500, !.body = "placeholder"]
               ELSE [result EXCEPT !.pc = "crashed"]
  /\ UNCHANGED AffectionRest

(***************************************************************************)
(* The text layout done twice on one input, fonts being registered meanwhile *)
(***************************************************************************)
LayoutStyles ==
  {("x" :> 5) @@ ("y" :> 10) @@ ("width" :> w) @@ ("height" :> 80)
     @@ ("fontFamily" :> fam) @@ ("verticalAlign" :> va) :
       w \in {150, 300}, fam \in {R2Family, "sans-serif"}, va \in {"top", "middle"}}
LayoutInputs == [f : {"layout"}, text : {Txt_HelloWorld, Txt_Hi}, style : LayoutStyles]

\* the (line, x, y) of the fillText calls among drawing operations
layoutOf(ops) ==
  LET fills == SelectSeq(ops, LAMBDA o : o.op = "fillText")
  IN [i \in 1..Len(fills) |-> [line |-> fills[i].at.text, x |-> fills[i].at.x, y |-> fills[i].at.y]]

\* one layout of the input by drawTextOnCanvas and by drawElementOnCanvas, recorded
\* with the face bound to the style's font family and the count of registered fonts
ApplyLayout ==
  /\ arg.f = "layout" /\ Len(result) < 2
  /\ result' = Append(result,
       [text |-> layoutOf(drawTextOnCanvas(1, arg.text, arg.style,
                                           DefaultWidth, DefaultHeight).ops),
        element |-> layoutOf(drawElementOnCanvas(1, arg.text, arg.style,
                                                 DefaultWidth, DefaultHeight, TRUE).ops),
        face |-> faceOf(fontOf(arg.style).family),
        fonts |-> Len(backendFonts)])
  /\ UNCHANGED <<arg, ReqVars, FontVars, calls>>

(***************************************************************************)
(* Specifications                                                          *)
(***************************************************************************)
InitCommon ==
  /\ rq = IdleRequest
  /\ canvas = <<>>
  /\ resp = NoResponse
  /\ rounds = 0
  /\ registeredFonts = {}
  /\ cacheFiles = <<>>
  /\ backendFonts = <<>>
  /\ fcall = [c \in 0..MaxCallers |-> IdleCall]
  /\ fstat = [fetches |-> [f \in FontFamilies |-> 0], fileOps |-> [f \in FontFamilies |-> 0],
              regCalls |-> [f \in FontFamilies |-> 0]]
  /\ calls = 0

\* the overlay service handling requests
Init ==
  /\ InitCommon
  /\ variant \in Variants
  /\ arg = <<>>
  /\ result = NotYet

Next ==
  \/ \E p \in RequestPaths, q \in RequestQueries : Begin(p, q)
  \/ \E o \in FetchOutcomes : CfgFetchSettle(o)
  \/ \E o \in FetchOutcomes : ImgFetchSettle(o)
  \/ \E jsonOk \in BOOLEAN, c \in Configs, bufferOk \in BOOLEAN, reg \in RegisterOutcomes :
       ReadBodies(jsonOk, c, bufferOk, reg)
  \/ \E ok \in BOOLEAN, img \in Images, reg \in RegisterOutcomes : LoadImageSettle(ok, img, reg)
  \/ \E o \in FontFetchOutcomes, reg \in RegisterOutcomes : FontSettleReq(o, reg)
  \/ \E filterOk \in BOOLEAN, encodeOk \in BOOLEAN : Render(filterOk, encodeOk)
  \/ \E ok \in BOOLEAN : HandleError(ok)
  \/ \E o \in ErrImageOutcomes : ErrImageSettle(o)

Spec == Init /\ [][Next]_vars

\* the steps of a request after its start, but the rendering: each pending fetch
\* settles, and the event loop runs every continuation that is ready
Progress ==
  \/ \E o \in FetchOutcomes : CfgFetchSettle(o)
  \/ \E o \in FetchOutcomes : ImgFetchSettle(o)
  \/ \E jsonOk \in BOOLEAN, c \in Configs, bufferOk \in BOOLEAN, reg \in RegisterOutcomes :
       ReadBodies(jsonOk, c, bufferOk, reg)
  \/ \E ok \in BOOLEAN, img \in Images, reg \in RegisterOutcomes : LoadImageSettle(ok, img, reg)
  \/ \E o \in FontFetchOutcomes, reg \in RegisterOutcomes : FontSettleReq(o, reg)
  \/ \E ok \in BOOLEAN : HandleError(ok)
  \/ \E o \in ErrImageOutcomes : ErrImageSettle(o)

\* the rendering step of a request
Rendering == \E filterOk \in BOOLEAN, encodeOk \in BOOLEAN : Render(filterOk, encodeOk)

\* the overlay service when every fetch it issues settles.  The last conjunct is
\* the weak fairness of Rendering written out: Rendering is enabled exactly when
\* ReadyToRender holds, and it always changes rq
SpecLive ==
  /\ Init /\ [][Next]_vars
  /\ WF_vars(Progress)
  /\ ([]<>(~ReadyToRender) \/ []<><<Rendering>>_vars)

\* registerFontFromUrl called by overlapping callers
InitFont ==
  /\ InitCommon
  /\ variant = "server"
  /\ arg = <<>>
  /\ result = NotYet

NextFont ==
  \/ \E c \in Callers, u \in FontUrls, f \in FontFamilies, reg \in RegisterOutcomes :
       CallRegister(c, u, f, reg)
  \/ \E c \in Callers, o \in FontFetchOutcomes, reg \in RegisterOutcomes : CallSettle(c, o, reg)

SpecFont == InitFont /\ [][NextFont]_vars

\* extractPathInfo on every generated pathname
InitPath ==
  /\ InitCommon
  /\ variant = "server"
  /\ arg \in PathInputs
  /\ result = NotYet

NextPath == ApplyExtractPathInfo

SpecPath == InitPath /\ [][NextPath]_vars

\* two layouts of one input in a process that registers fonts
InitLayout ==
  /\ InitCommon
  /\ variant = "server"
  /\ arg \in LayoutInputs
  /\ result = <<>>

NextLayout ==
  \/ ApplyLayout
  \/ \E u \in FontUrls, f \in FontFamilies, reg \in RegisterOutcomes : CallRegister(1, u, f, reg)
  \/ \E o \in FontFetchOutcomes, reg \in RegisterOutcomes : CallSettle(1, o, reg)

SpecLayout == InitLayout /\ [][NextLayout]_vars

\* the affection-window service handling one request
InitAffection ==
  /\ InitCommon
  /\ variant = "server"
  /\ arg \in WindowInputs
  /\ result = NotYet

NextAffection ==
  \/ AffBegin
  \/ \E o \in FetchOutcomes : AffJsonFetchSettle(o)
  \/ \E jsonOk \in BOOLEAN, renderOk \in BOOLEAN : AffJsonBodySettle(jsonOk, renderOk)
  \/ \E o \in FetchOutcomes, bodyOk \in BOOLEAN, renderOk \in BOOLEAN :
       AffImgFetchSettle(o, bodyOk, renderOk)
  \/ \E ok \in BOOLEAN : AffLoadImageSettle(ok)
  \/ \E encodeOk \in BOOLEAN : AffEncode(encodeOk)
  \/ \E ok \in BOOLEAN : AffHandleError(ok)

SpecAffection == InitAffection /\ [][NextAffection]_vars

\* the pure helpers on every generated input
InitPure ==
  /\ InitCommon
  /\ variant = "server"
  /\ arg \in PureInputs
  /\ result = NotYet

NextPure ==
  \/ ApplyWrap
  \/ ApplyNoWrap
  \/ ApplyVerticalOffset
  \/ ApplyDecodeText
  \/ ApplyParsePadding
  \/ ApplyRenderAffectionWindow
  \/ ApplyAffectionBar

SpecPure == InitPure /\ [][NextPure]_vars

(***************************************************************************)
(* Properties                                                              *)
(***************************************************************************)
Ended == rq.pc \in {"done", "crashed"}
FontResolved == rq.fontUrl = <<>> \/ FontSettled(0)
TextOpNames == {"fillText", "strokeText"}
SurfaceOpNames == {"createCanvas", "drawImage"}
ElementDrawn == \E i \in 1..Len(canvas) : canvas[i].op \notin SurfaceOpNames
mergedFontFamily(config, e) ==
  Get(config.elements[e].style @@ config.defaultStyle, "fontFamily", "sans-serif")

\* C1: whenever a stage of a wildcard request has failed and the handler has ended,
\* the response has status 500 and its body is the decodable placeholder image,
\* whatever the further I/O of the failure handling did
C1_FailureGivesPlaceholder500 ==
  (Ended /\ rq.failedAt # "none") => (resp.status = 500 /\ resp.body = "placeholder")

\* C2 (as stated): for every font family the downloads, the cache-file accesses and
\* the backend registrations are each done at most once in the process lifetime
C2_AtMostOncePerFamily ==
  \A f \in FontFamilies :
    fstat.fetches[f] <= 1 /\ fstat.fileOps[f] <= 1 /\ fstat.regCalls[f] <= 1

\* C2 (amended): a call of registerFontFromUrl that begins when its family is already
\* in registeredFonts resolves at once and does no download, no cache-file access and
\* no backend registration
C2_RegisteredFamilyDoesNoWork ==
  \A c \in DOMAIN fcall :
    fcall[c].sawRegistered => (fcall[c].work = 0 /\ fcall[c].pc = "resolved")

C2_Witness ==
  \E c \in Callers :
    /\ fcall[c].sawRegistered /\ fcall[c].pc = "resolved" /\ fcall[c].work = 0
    /\ fcall[c].fam \in registeredFonts
    /\ fstat.regCalls[fcall[c].fam] = 1

\* C3: when a font is declared and its download or registration has failed, the
\* request still ends with status 200 and every drawn text uses the fontFamily of
\* its element's merged style, never CustomR2Font
C3_FontFailureFallsBack ==
  (Ended /\ rq.failedAt = "none" /\ rq.fontUrl # <<>> /\ fcall[0].pc = "rejected")
    => /\ resp.status = 200
       /\ \A i \in 1..Len(canvas) :
            canvas[i].op \in TextOpNames
              => canvas[i].at.font = mergedFontFamily(rq.config, canvas[i].at.el)

C5_SurfaceSize ==
  (canvas # <<>> /\ rq.imgLoad = "ok")
    => /\ canvas[1].width = (IF rq.config.imageSize.width # 0
                             THEN rq.config.imageSize.width ELSE rq.image.width)
       /\ canvas[1].height = (IF rq.config.imageSize.height # 0
                              THEN rq.config.imageSize.height ELSE rq.image.height)

\* C6: for the one-element descriptor with the box (10, 10, 200, 50) and
\* textAlign center, an 800x600 image and title=Hello World, the text is drawn with
\* a centred anchor at x = 110 and its first line's top at y = 10
C6_ElementBoxIsLayoutBox ==
  (rq.pc = "done" /\ resp.body = "rendered" /\ rq.config = Config_example
   /\ rq.query = Query_hello /\ rq.image = [width |-> 800, height |-> 600])
    => \E i \in 1..Len(canvas) :
         /\ canvas[i].op = "fillText"
         /\ canvas[i].at.text = Txt_HelloWorld
         /\ canvas[i].at.align = "center"
         /\ canvas[i].at.x = 110 * PxUnit
         /\ canvas[i].at.y = 10 * PxUnit

\* the non-empty '/'-separated segments of a pathname, read off left to right
RECURSIVE SegmentLen(_)
SegmentLen(s) == IF s = <<>> \/ Head(s) = "/" THEN 0 ELSE 1 + SegmentLen(Tail(s))

RECURSIVE Segments(_)
Segments(s) ==
  IF s = <<>> THEN <<>>
  ELSE IF Head(s) = "/" THEN Segments(Tail(s))
  ELSE <<SubSeq(s, 1, SegmentLen(s))>> \o Segments(SubSeq(s, SegmentLen(s) + 1, Len(s)))

\* segments i..j with a '/' between neighbours
RECURSIVE Slashed(_, _, _)
Slashed(segs, i, j) ==
  IF i > j THEN <<>>
  ELSE IF i = j THEN segs[i]
  ELSE segs[i] \o <<"/">> \o Slashed(segs, i + 1, j)

Applied == result # NotYet

\* C7: for a pathname with at least 3 non-empty segments extractPathInfo returns a
\* descriptor: bucketName the first segment, imagePath the other segments joined by
\* '/', configDir the imagePath segments but the last two, folderName the second
\* to last one; the example path gives kbd, A/A/EMO/A/1.webp, A/A/EMO, A and
\* A/A/EMO/A.json
C7_ResolvesWellFormedPaths ==
  (Applied /\ Len(Segments(arg)) >= 3)
    => LET segs == Segments(arg)
           n == Len(segs)
       IN /\ ~IsThrown(result)
          /\ result.bucketName = segs[1]
          /\ result.imagePath = Slashed(segs, 2, n)
          /\ result.configDir = Slashed(segs, 2, n - 2)
          /\ result.folderName = segs[n - 1]
          /\ arg = Path_example
               => result = [bucketName |-> <<"k", "b", "d">>,
                            imagePath |-> <<"A", "/", "A", "/", "E", "M", "O", "/", "A", "/",
                                            "1", ".", "w", "e", "b", "p">>,
                            configDir |-> <<"A", "/", "A", "/", "E", "M", "O">>,
                            folderName |-> <<"A">>,
                            configKey |-> <<"A", "/", "A", "/", "E", "M", "O", "/", "A",
                                            ".", "j", "s", "o", "n">>]

C7_Witness ==
  /\ Applied /\ arg = Path_example
  /\ ~IsThrown(result)
  /\ result.configDir = <<"A", "/", "A", "/", "E", "M", "O">>

\* C8: configKey is configDir/folderName.json when configDir is non-empty and
\* exactly folderName.json, with no leading slash, when configDir is empty
C8_ConfigKeyHasNoEmptySegment ==
  (Applied /\ ~IsThrown(result))
    => result.configKey = (IF result.configDir # <<>>
                           THEN result.configDir \o <<"/">> \o result.folderName \o Str_json
                           ELSE result.folderName \o Str_json)

\* C9: for a pathname with fewer than 3 non-empty segments extractPathInfo throws:
\* it returns no descriptor, so no bucket, image path or config key
C9_MalformedPathsThrow ==
  (Applied /\ Len(Segments(arg)) < 3)
    => (IsThrown(result) /\ DOMAIN result \cap {"bucketName", "imagePath", "configKey"} = {})

C9_Witness ==
  /\ Applied /\ arg = Path_two
  /\ IsThrown(result)

\* the elements whose query text decodes to a non-empty text
drawableElements(config, query) ==
  {i \in 1..Len(config.elements) :
     /\ config.elements[i].query \in DOMAIN queryParamsOf(query)
     /\ ~decodeText(query[config.elements[i].query]).threw
     /\ decodeText(query[config.elements[i].query]).text # <<>>}

\* C10: once the config and the image are fetched and decoded, an error raised for
\* one element does not abort the response: unless the encoding fails, a response
\* that is sent has status 200 and every other element with a text is drawn
C10_ElementErrorsAreIsolated ==
  (rq.pc = "done" /\ rq.parsed /\ rq.imgLoad = "ok"
   /\ rq.failedAt \notin {"encoding", "elementFilter"})
    => /\ resp.status = 200
       /\ \A e \in drawableElements(rq.config, rq.query) :
            \E i \in 1..Len(canvas) : canvas[i].op = "fillText" /\ canvas[i].at.el = e

Rendered == rq.pc = "done" /\ resp.body = "rendered"
DrawnWithR2Font ==
  \E i \in 1..Len(canvas) : canvas[i].op \in TextOpNames /\ canvas[i].at.font = R2Family

\* C11: the baseUrl of a request affects that request only: the font file bound to
\* CustomR2Font that a request's elements are drawn with comes from the origin of
\* that request (its own baseUrl, or the default origin), never from the origin
\* that an earlier request named
C11_BaseUrlStaysInItsRequest ==
  (Rendered /\ rq.fontUrl # <<>> /\ DrawnWithR2Font /\ faceOf(R2Family) # <<>>)
    => UrlHost(faceOf(R2Family)) = UrlHost(rq.fontUrl)

\* the element that a drawing operation belongs to
elementOfOp(o) == IF "at" \in DOMAIN o THEN o.at.el ELSE o.el
drawnElements == {elementOfOp(canvas[i]) : i \in {j \in 1..Len(canvas) : canvas[j].op \notin SurfaceOpNames}}

\* the config elements whose query key is among the request's parameters but baseUrl
matchedElements(config, query) ==
  {e \in 1..Len(config.elements) :
     config.elements[e].query \in (DOMAIN query \ {"baseUrl"})}

\* C12: the elements drawn are among the config elements whose query key is present
\* in the request's parameters other than baseUrl, each of them with a drawable text
\* is drawn, and whichever elements match, the matching itself is no error: unless
\* an element or the encoding fails, the response has status 200
C12_MatchedElementsOnly ==
  (rq.pc = "done" /\ rq.parsed /\ rq.imgLoad = "ok"
   /\ rq.failedAt \notin {"encoding", "compositing"})
    => /\ resp.status = 200
       /\ drawnElements \subseteq matchedElements(rq.config, rq.query)
       /\ drawableElements(rq.config, rq.query) \subseteq drawnElements

\* C13: the paint order is the config order: the surface is created and the base
\* image drawn first, and of any two painting operations of elements the earlier one
\* belongs to the element that is not later in config.elements
C13_PaintOrderIsConfigOrder ==
  canvas # <<>>
    => /\ Len(canvas) >= 2
       /\ canvas[1].op = "createCanvas" /\ canvas[2].op = "drawImage"
       /\ \A i \in 3..Len(canvas) : canvas[i].op \notin SurfaceOpNames
       /\ \A i, j \in 3..Len(canvas) :
            i < j => elementOfOp(canvas[i]) <= elementOfOp(canvas[j])

C13_Witness ==
  /\ Rendered
  /\ {1, 2} \subseteq drawnElements
  /\ \E i, j \in 3..Len(canvas) :
       i < j /\ elementOfOp(canvas[i]) = 1 /\ elementOfOp(canvas[j]) = 2

\* a line that is one word: it has no space to break at
SingleWord(line) == \A i \in 1..Len(line) : line[i] # " "
FitsOrSingleWord(lines, contentWidth) ==
  \A i \in 1..Len(lines) :
    Len(lines[i]) * advance(WrapFont) <= contentWidth \/ SingleWord(lines[i])

\* C14: in pre-wrap mode and in any unspecified mode, for every text, box width and
\* padding, every output line of the word wrap measures at most the content width
\* (box width minus left and right padding) or is a single word, also when the
\* content width is zero or negative
C14_WrappedLinesFit ==
  (Applied /\ arg.f = "wrap")
    => /\ FitsOrSingleWord(result.text, arg.width - 2 * arg.padding)
       /\ FitsOrSingleWord(result.element, arg.width - 2 * arg.padding)

\* C15: for every verticalAlign, block height and content height, a negative
\* content height included, the vertical start offset from the content top is not
\* negative: 0 for top and for unknown values, half the free height or 0 for middle
\* and center, the free height or 0 for bottom; bottom with a block higher than the
\* content gives 0
C15_VerticalOffsetNotNegative ==
  (Applied /\ arg.f = "align")
    => LET blockHeight == arg.lineCount * AlignFontSize * AlignLineHeight10 * (PxUnit \div 10)
           contentHeight == PxUnit * arg.height
       IN /\ result.offset >= 0
          /\ arg.verticalAlign \in {"top", "baseline"} => result.offset = 0
          /\ arg.verticalAlign \in {"middle", "center"}
               => result.offset = (IF contentHeight >= blockHeight
                                   THEN (contentHeight - blockHeight) \div 2 ELSE 0)
          /\ arg.verticalAlign = "bottom"
               => result.offset = (IF contentHeight >= blockHeight
                                   THEN contentHeight - blockHeight ELSE 0)

C15_Witness ==
  /\ Applied /\ arg.f = "align"
  /\ arg.verticalAlign = "bottom" /\ arg.height < 0 /\ arg.lineCount = 3
  /\ result.offset = 0

RECURSIVE ReplaceEscapedNewline(_)
\* every backslash that an 'n' follows, together with that 'n', becomes a newline
ReplaceEscapedNewline(s) ==
  IF s = <<>> THEN <<>>
  ELSE IF Len(s) >= 2 /\ s[1] = "\\" /\ s[2] = "n"
       THEN <<"\n">> \o ReplaceEscapedNewline(SubSeq(s, 3, Len(s)))
  ELSE <<Head(s)>> \o ReplaceEscapedNewline(Tail(s))

\* C16: decodeText gives the raw query text percent-decoded, then every underscore
\* replaced by a space, then every backslash followed by 'n' replaced by a newline
\* character, and nothing else
C16_DecodeTextTransform ==
  (Applied /\ arg.f = "decode" /\ ~result.threw)
    => result.text = ReplaceEscapedNewline(ReplaceUnderscore(decodeURIComponent(arg.text)[2]))

\* a text of no character, or of spaces and newlines only
Blank(text) == \A i \in 1..Len(text) : text[i] \in {" ", "\n"}

\* the matched elements whose text decodes to an empty or whitespace-only text
blankElements(config, query) ==
  {e \in matchedElements(config, query) :
     /\ ~decodeText(query[config.elements[e].query]).threw
     /\ Blank(decodeText(query[config.elements[e].query]).text)}

\* C17: a matched element whose decoded text is empty or only whitespace has nothing
\* painted for it, neither background nor border nor text, and the request succeeds
C17_BlankTextPaintsNothing ==
  (rq.pc = "done" /\ rq.parsed /\ rq.imgLoad = "ok" /\ rq.failedAt = "none")
    => /\ resp.status = 200
       /\ blankElements(rq.config, rq.query) \cap drawnElements = {}

\* the space-separated tokens of a padding string
paddingTokens(s) == SelectSeq(Split(s, " "), LAMBDA p : p # <<>>)
\* a token of the form Npx
IsPx(token) ==
  /\ DigitRun(token) > 0
  /\ token = SubSeq(token, 1, DigitRun(token)) \o <<"p", "x">>
PxOf(token) == ParseIntAcc(token, 0)

\* C18: parsePadding maps a padding string by its count of space-separated tokens:
\* one Npx token gives N on all four sides, two give top = bottom = first and
\* right = left = second, four give top, right, bottom, left; every other token
\* count, a 3-token string included, and a missing value give zero on all sides
C18_PaddingByTokenCount ==
  (Applied /\ arg.f = "padding")
    => IF arg.padding = Undefined THEN result = [threw |-> FALSE, v |-> ZeroPadding]
       ELSE LET tokens == paddingTokens(arg.padding.s)
                n == Len(tokens)
                allPx == \A i \in 1..n : IsPx(tokens[i])
            IN /\ ~result.threw
               /\ n \notin {1, 2, 4} => result.v = ZeroPadding
               /\ (n = 1 /\ allPx)
                    => result.v = [top |-> PxOf(tokens[1]), right |-> PxOf(tokens[1]),
                                   bottom |-> PxOf(tokens[1]), left |-> PxOf(tokens[1])]
               /\ (n = 2 /\ allPx)
                    => result.v = [top |-> PxOf(tokens[1]), right |-> PxOf(tokens[2]),
                                   bottom |-> PxOf(tokens[1]), left |-> PxOf(tokens[2])]
               /\ (n = 4 /\ allPx)
                    => result.v = [top |-> PxOf(tokens[1]), right |-> PxOf(tokens[2]),
                                   bottom |-> PxOf(tokens[3]), left |-> PxOf(tokens[4])]

\* C20: the affection value is limited by the config's maxAffection: for a Value
\* above it, the bar fill and the value text, in each of the formats number,
\* fraction and percent, are those of Value = maxAffection
C20_ValueLimitedByMax ==
  LET max == IF arg.maxAffection # 0 THEN arg.maxAffection ELSE DefaultMaxAffection
  IN (Applied /\ arg.f = "affection" /\ arg.value > max)
       => result = renderAffectionWindow(arg.maxAffection, arg.format, max)

C21_RegisteredOnlyAfterRegistration ==
  [][/\ \A f \in registeredFonts' \ registeredFonts :
          /\ fstat'.regCalls[f] = fstat.regCalls[f] + 1
          /\ \E c \in DOMAIN fcall :
               fcall'[c] # fcall[c] /\ fcall'[c].pc = "resolved" /\ fcall'[c].fam = f
     /\ \A c \in DOMAIN fcall :
          (fcall'[c] # fcall[c] /\ fcall'[c].pc = "rejected")
            => registeredFonts' = registeredFonts]_vars

C21_Witness ==
  \E c \in Callers :
    /\ fcall[c].pc = "rejected" /\ fcall[c].work = 2
    /\ fcall[c].fam \notin registeredFonts
    /\ registeredFonts # {}

\* C22: every request to the wildcard route eventually ends with a response sent,
\* given that each fetch it issues settles; no failure at any stage, a failure
\* while the error image is produced included, leaves it without a response
C22_EveryRequestIsAnswered ==
  \A n \in 1..MaxRounds :
    (rounds = n /\ rq.pc # "idle") ~> (rounds = n /\ rq.pc = "done" /\ resp.status # 0)

\* the number of newline characters of a text
Newlines(text) == Cardinality({i \in 1..Len(text) : text[i] = "\n"})

\* C23: with whiteSpace nowrap or pre the text is split at its newline characters
\* and each hard line is one output line whatever its width: a text with k newline
\* characters gives k+1 lines, none of which contains a newline
C23_HardLinesKept ==
  (Applied /\ arg.f = "nowrap")
    => /\ Len(result.lines) = Newlines(arg.text) + 1
       /\ \A i \in 1..Len(result.lines) : Newlines(result.lines[i]) = 0
       /\ Join(result.lines, <<"\n">>) = arg.text

\* C24: when the final encoding of the rendered surface fails, a second encoding
\* of the same surface, of lower fidelity, is attempted before the request gives
\* up, and the placeholder is returned only if that fails too
C24_FallbackEncodingAttempted ==
  (Ended /\ rq.failedAt = "encoding") => rq.encodes >= 2

\* the place of a painting operation among the paint steps of its element
PaintRank(o) ==
  CASE o.op = "createScratch" -> 1
    [] o.op = "bgFill" -> 2
    [] o.op = "filter" -> 3
    [] o.op = "border" -> 4
    [] o.op = "composite" -> 5
    [] o.op \in TextOpNames -> 6

\* the merged style of the element that operation i of the canvas belongs to
styleOfOp(i) ==
  elementStyle(variant, rq.config, rq.config.elements[elementOfOp(canvas[i])], FALSE)
IsSet(i, key) == Truthy(Get(styleOfOp(i), key, Undefined))

HasOp(e, op) ==
  \E i \in 3..Len(canvas) : canvas[i].op = op /\ elementOfOp(canvas[i]) = e
\* the filter step of element e failed: its scratch surface was created and its
\* background, if any, was filled, its style names a filter, and no filter pass is
\* on the canvas
FilterFailed(e) ==
  /\ HasOp(e, "createScratch") /\ ~HasOp(e, "filter")
  /\ Truthy(Get(elementStyle(variant, rq.config, rq.config.elements[e], FALSE),
                "filter", Undefined))
  /\ Truthy(Get(elementStyle(variant, rq.config, rq.config.elements[e], FALSE),
                "backgroundColor", Undefined)) => HasOp(e, "bgFill")
\* what the element loop does when every filter step works
drawnWithFilters ==
  drawAll(variant, rq.config, rq.query, textElementsOf(rq.config, rq.query),
          rq.fontUrl # <<>> /\ fcall[0].pc = "resolved" /\ R2Family \in registeredFonts,
          rq.width, rq.height, TRUE)

\* C26: a failure of the pixel extraction or of the filtering in the filter step
\* of an element never aborts the render: the border and the text of the element
\* are painted, the following elements are drawn as they are with a working
\* filter, and the request ends with status 200 unless something else fails
C26_FilterFailureIsCaught ==
  (variant = "part002" /\ rq.pc \in {"catch", "errfetch", "done", "crashed"}
   /\ \E e \in 1..Len(rq.config.elements) : FilterFailed(e))
    => /\ \A e \in 1..Len(rq.config.elements) :
            FilterFailed(e) => /\ HasOp(e, "border") /\ HasOp(e, "composite")
                               /\ HasOp(e, "fillText")
       /\ SelectSeq(canvas, LAMBDA o : o.op \notin SurfaceOpNames)
            = SelectSeq(drawnWithFilters.ops, LAMBDA o : o.op # "filter")
       /\ rq.failedAt \in {"none", "compositing", "encoding"}
       /\ rq.failedAt = "compositing" <=> drawnWithFilters.threw
       /\ (rq.pc = "done" /\ rq.failedAt = "none") => resp.status = 200

C26_Witness ==
  /\ variant = "part002" /\ Rendered /\ resp.status = 200
  /\ FilterFailed(1) /\ HasOp(1, "border") /\ HasOp(1, "composite")
  /\ HasOp(1, "fillText") /\ HasOp(4, "fillText")

\* every cache file holds the body of a successful response for the URL that
\* names it
CacheFilesSound ==
  \A f \in DOMAIN cacheFiles :
    cacheFiles[f].from # <<>> /\ cacheFileOf(cacheFiles[f].from) = f

\* C27: under any interleaving of calls, each file of the font cache holds the
\* non-empty body of a successful response for the URL that names the file; a file
\* appears only when the download of a call for that URL has succeeded; a download
\* that fails or gives an empty body creates and changes no file; no file is deleted
C27_CacheFilesAreSuccessfulBodies ==
  /\ []CacheFilesSound
  /\ [][/\ DOMAIN cacheFiles \subseteq DOMAIN cacheFiles'
        /\ \A f \in DOMAIN cacheFiles : cacheFiles'[f] = cacheFiles[f]
        /\ \A f \in DOMAIN cacheFiles' \ DOMAIN cacheFiles :
             \E c \in DOMAIN fcall :
               /\ fcall[c].pc = "fetching" /\ cacheFileOf(fcall[c].url) = f
               /\ fcall'[c].work = 3
               /\ cacheFiles'[f].from = fcall[c].url
        /\ \A c \in DOMAIN fcall :
             (fcall[c].pc = "fetching" /\ fcall'[c].pc = "rejected" /\ fcall'[c].work = 1)
               => cacheFiles' = cacheFiles]_vars

C27_Witness ==
  /\ DOMAIN cacheFiles # {}
  /\ \E c \in Callers :
       /\ fcall[c].pc = "rejected" /\ fcall[c].work = 1
       /\ cacheFileOf(fcall[c].url) \notin DOMAIN cacheFiles

\* the non-empty space-separated words of a line
WordsOf(line) == SelectSeq(Split(line, " "), LAMBDA w : w # <<>>)
RECURSIVE WordsOfLines(_)
\* the non-empty words of a list of lines, in reading order
WordsOfLines(lines) ==
  IF lines = <<>> THEN <<>> ELSE WordsOf(Head(lines)) \o WordsOfLines(Tail(lines))
\* every hard line of the text is at most as wide as the content width
AllHardLinesFit(text, contentWidth) ==
  \A i \in 1..Len(Split(text, "\n")) :
    measureText(Split(text, "\n")[i], WrapFont) <= contentWidth

\* C28: the word wrap neither loses nor reorders text: the non-empty words of the
\* output lines, read in order, are the non-empty words of the hard lines, and a
\* hard line that is not wider than the content width, an empty line between two
\* newlines included, is emitted unchanged as exactly one output line
C28_WrapKeepsWords ==
  (Applied /\ arg.f = "wrap")
    => LET contentWidth == arg.width - 2 * arg.padding
           hardLines == Split(arg.text, "\n")
       IN /\ WordsOfLines(result.text) = WordsOfLines(hardLines)
          /\ WordsOfLines(result.element) = WordsOfLines(hardLines)
          /\ AllHardLinesFit(arg.text, contentWidth)
               => result.text = hardLines /\ result.element = hardLines
          /\ (Len(hardLines) > 1 /\ measureText(hardLines[1], WrapFont) <= contentWidth)
               => result.text[1] = hardLines[1] /\ result.element[1] = hardLines[1]

C28_Witness ==
  /\ Applied /\ arg.f = "wrap"
  /\ arg.text = <<"a", " ", "a", "\n", "\n">> /\ arg.width = 24 /\ arg.padding = 0
  /\ result.text = <<<<"a">>, <<"a">>, <<>>, <<>>>>

\* C29: for every Value parameter (missing, no number, negative, larger than
\* maxAffection) and every maxAffection of the config (missing or zero, negative),
\* the fill percentage is within 0 and 100 and the fill width within 0 and the bar
\* width, and the fill bar is drawn only when the fill width is above 0
C29_FillWithinBar ==
  (Applied /\ arg.f = "bar")
    => /\ result.percentDen > 0 /\ result.widthDen > 0
       /\ 0 <= result.percentNum /\ result.percentNum <= 100 * result.percentDen
       /\ 0 <= result.widthNum /\ result.widthNum <= DefaultBarWidth * result.widthDen
       /\ result.fillDrawn => result.widthNum > 0

C29_Witness ==
  /\ Applied /\ arg.f = "bar"
  /\ arg.Value = JStr(<<"-", "1", "5">>) /\ arg.maxAffection = 0 - 5
  /\ result.percentNum = 100 * result.percentDen /\ result.fillDrawn

\* what the window holds besides the character image
windowWithoutImage ==
  <<"container">> \o (IF arg.hasName THEN <<"name">> ELSE <<>>)
    \o <<"valueText", "barBackground">>
    \o (IF affectionBar(arg.maxAffection, arg.Value).fillDrawn THEN <<"barFill">> ELSE <<>>)

\* C30: in the affection-window service a failure to download or to decode the
\* character image never fails the request: the container, the name, the value
\* text and the bar are rendered and the response has status 200; only a failure
\* to fetch or to parse the JSON config, or a rendering or encoding error, gives
\* the 500 error image
C30_ImageFailureIsNotFatal ==
  result # NotYet
    => /\ result.failedAt \in {"none", "jsonFetch", "jsonParse", "render", "encoding"}
       /\ result.status = 500 <=> (result.pc = "done" /\ result.failedAt # "none")
       /\ (result.imageFailed /\ result.pc \in {"encode", "done"} /\ result.failedAt = "none")
            => result.painted = windowWithoutImage
       /\ (result.pc = "done" /\ result.failedAt = "none")
            => /\ result.status = 200
               /\ SelectSeq(result.painted, LAMBDA p : p \notin {"image", "imageBorder"})
                    = windowWithoutImage

C30_Witness ==
  /\ result # NotYet /\ arg.hasImageUrl /\ arg.hasName
  /\ result.pc = "done" /\ result.imageFailed /\ ~result.imageBuffer
  /\ result.status = 200 /\ Len(result.painted) = 5

====
